---- MODULE Spec2Model ----
(***************************************************************************)
(* Model of the personal-assistant orchestration engine:                   *)
(*   - the session (src/agent/main.py) with its capped history,            *)
(*   - the assistant graph (src/agent/schema/init_assistant_graph.py):     *)
(*     query_rewriter -> router -> master | resume | none,                 *)
(*   - the supervisor tool-calling loop (src/agent/agents/master.py),      *)
(*   - the leaf sub-agent tool-calling loops (mail, calendar, expense).    *)
(* Texts are strings drawn from small vocabularies; text functions         *)
(* (strip, lower, parsing) are tables over those vocabularies.             *)
(***************************************************************************)
EXTENDS Integers, Sequences, FiniteSets, TLC

(***************************************************************************)
(* Program constants                                                       *)
(***************************************************************************)
HISTORY_CAP == 40
MAX_ITERATIONS == 20
LEAF_MAX_ITERATIONS == 10

(***************************************************************************)
(* Bounds of the model                                                     *)
(***************************************************************************)
\* requests a user submits in one session
MaxRequests == 2
\* tool calls the model may request in one turn
MaxToolCalls == 2
\* model turns of a run whose tool calls and tool outcomes are drawn freely
MaxRichTurns == 1
\* user/assistant exchanges already in the history of a long-running session
PrefillPairs == 19
\* tool calls a consumer makes through one pool object
MaxPoolCalls == 2
\* invocations of leaf sub-agents in one process
MaxLeafRuns == 2
\* threads calling into the google service module at once
MaxThreads == 2
\* publish_eval_event calls made while the consumer runs
MaxPublishes == 2
\* disturbances around the consumer: writes by another client of the list,
\* Redis going down or coming back, restarts of a stopped consumer
MaxDisturbances == 1

NONE == "None"

(***************************************************************************)
(* Text vocabulary and the string functions the code applies to it         *)
(***************************************************************************)
\* str.strip()
Strip(s) ==
    CASE s = " q1 " -> "q1"
      [] s = " q2 " -> "q2"
      [] s = " rq " -> "rq"
      [] s = " Resume " -> "Resume"
      [] s = "  "   -> ""
      [] s = " ans " -> "ans"
      [] s = "I'm sorry, I am not capable of handling this request.\nI can handle the following categories:\n- Mails\n- Calendar\n- Expense Tracker\n- Resume Preparation\n"
            -> "I'm sorry, I am not capable of handling this request.\nI can handle the following categories:\n- Mails\n- Calendar\n- Expense Tracker\n- Resume Preparation"
      [] OTHER -> s

\* str.lower()
Lower(s) ==
    CASE s = "Resume" -> "resume"
      [] s = " Resume " -> " resume "
      [] s = "MAIL" -> "mail"
      [] OTHER -> s

(***************************************************************************)
(* JSON values and the texts a model call returns                          *)
(* (src/agent/clients/ollama_client.py)                                    *)
(***************************************************************************)
\* a parsed JSON value; an object lists its keys and carries the two fields
\* the callers read
JObject(keys, category, rewritten) ==
    [type |-> "object", keys |-> keys, category |-> category,
     rewritten_query |-> rewritten, str |-> NONE]
JString(s) ==
    [type |-> "string", keys |-> {}, category |-> NONE,
     rewritten_query |-> NONE, str |-> s]
JNumber ==
    [type |-> "number", keys |-> {}, category |-> NONE,
     rewritten_query |-> NONE, str |-> NONE]
JArray(elems) ==
    [type |-> "array", keys |-> elems, category |-> NONE,
     rewritten_query |-> NONE, str |-> NONE]
PyNone ==
    [type |-> "none", keys |-> {}, category |-> NONE,
     rewritten_query |-> NONE, str |-> NONE]

\* a model text: "json" parses as a whole; "embedded" is prose around one
\* {...} block that parses; "embedded_bad" is prose around a {...} block that
\* does not parse; "garbage" holds no {...} block
Text(kind, value) == [kind |-> kind, value |-> value]

\* generate_json: json.loads(text), else the first-{ to last-} block, else None
GenerateJson(text) ==
    CASE text.kind = "json" -> text.value
      [] text.kind = "embedded" -> text.value
      [] OTHER -> PyNone

\* Python truthiness of a parsed value
Truthy(v) ==
    CASE v.type = "none" -> FALSE
      [] v.type = "object" -> v.keys # {}
      [] v.type = "array" -> v.keys # {}
      [] v.type = "string" -> v.str # ""
      [] OTHER -> TRUE

\* substring test  "category" in s  over the vocabulary
ContainsCategoryWord(s) == s \in {"category", "the category is mail"}

\* route_category: [raised, value]
RouteCategory(text) ==
    LET result == GenerateJson(text) IN
    IF ~Truthy(result) THEN [raised |-> FALSE, value |-> "none"]
    ELSE CASE result.type = "object" ->
                IF "category" \in result.keys
                THEN [raised |-> FALSE, value |-> result.category]
                ELSE [raised |-> FALSE, value |-> "none"]
           [] result.type = "string" ->
                IF ContainsCategoryWord(result.str)
                THEN [raised |-> TRUE, value |-> NONE]
                ELSE [raised |-> FALSE, value |-> "none"]
           [] result.type = "array" ->
                IF "category" \in result.keys
                THEN [raised |-> TRUE, value |-> NONE]
                ELSE [raised |-> FALSE, value |-> "none"]
           [] OTHER -> [raised |-> TRUE, value |-> NONE]

\* values of a JSON field that are no Python str: null, a number
JsonNumberValue == "<number>"
NotAString == {NONE, JsonNumberValue}

\* rewrite_query whose fallback returns the query as it came
RewriteQuery_unstripped(user_query, text) ==
    LET result == GenerateJson(text) IN
    IF /\ result.type = "object"
       /\ "rewritten_query" \in result.keys
       /\ result.rewritten_query \notin NotAString
       /\ Strip(result.rewritten_query) # ""
    THEN Strip(result.rewritten_query)
    ELSE user_query

\* rewrite_query
RewriteQuery(user_query, text) ==
    LET result == GenerateJson(text) IN
    IF /\ result.type = "object"
       /\ "rewritten_query" \in result.keys
       /\ result.rewritten_query \notin NotAString
       /\ Strip(result.rewritten_query) # ""
    THEN Strip(result.rewritten_query)
    ELSE Strip(user_query)

(***************************************************************************)
(* The routing decision (src/agent/schema/init_assistant_graph.py)         *)
(***************************************************************************)
MasterCategories == {"mail", "calendar", "drive", "expense_tracker"}
ResumeCategories == {"resume_preparation", "resume_prep", "resume"}

\* the decision without "drive" among the supervisor's categories
_route_decider_without_drive(category) ==
    LET c == Lower(Strip(category)) IN
    IF c \in MasterCategories \ {"drive"} THEN "master"
    ELSE IF c \in ResumeCategories THEN "resume"
    ELSE "none"

\* the decision with the supervisor as the default branch
_route_decider_default_master(category) ==
    LET c == Lower(Strip(category)) IN
    IF c \in ResumeCategories THEN "resume"
    ELSE "master"

_route_decider(category) ==
    LET c == Lower(Strip(category)) IN
    IF c \in MasterCategories THEN "master"
    ELSE IF c \in ResumeCategories THEN "resume"
    ELSE "none"

NoCategoryResponse ==
    "I'm sorry, I am not capable of handling this request.\nI can handle the following categories:\n- Mails\n- Calendar\n- Expense Tracker\n- Resume Preparation\n"

(***************************************************************************)
(* History (src/agent/agents/master.py)                                    *)
(***************************************************************************)
NoCall == [name |-> NONE, args |-> NONE]
NoId == <<>>
NoStructured == <<NONE, NONE>>

Message(role, content, name) ==
    [role |-> role, content |-> content, name |-> name,
     function_call |-> NoCall, tool_call_id |-> NoId,
     structured_response |-> NoStructured]

\* list[-n:]
LastN(s, n) ==
    IF Len(s) > n THEN SubSeq(s, Len(s) - n + 1, Len(s)) ELSE s

\* push_history keeping the oldest entries: history[:40]
push_history_keeps_head(history, msg) ==
    LET h == Append(history, msg) IN
    IF Len(h) > HISTORY_CAP THEN SubSeq(h, 1, HISTORY_CAP) ELSE h

\* push_history, on the history list
push_history(history, msg) ==
    LET h == Append(history, msg) IN
    IF Len(h) > HISTORY_CAP THEN LastN(h, HISTORY_CAP) ELSE h

(***************************************************************************)
(* State                                                                   *)
(***************************************************************************)
VARIABLES
    \* src/agent/main.py: PersonalAssistantApp
    state,        \* self.state
    processing,   \* self.processing
    pc,           \* where the request in flight stands
    gstate,       \* the state the graph run works on
    \* src/agent/agents/master.py: handle_master's locals
    spc,          \* position in handle_master
    iterations,
    messages,     \* the transcript
    pending,      \* tool calls of the current model turn not yet executed
    running,      \* the tool call whose sub-agent is running
    \* leaf sub-agent run (mail_agent.py, calendar_agent.py, expense_tracker_agent.py)
    lagent, lpc, liter, lmessages, lpending, lrunning, lresult,
    \* environment budgets
    reqLeft,      \* requests the user still submits
    toolLeft,     \* tool turns the models still request
    richLeft,     \* freely drawn tool turns left
    \* history variables (record what happened; no action reads them)
    log,          \* messages appended to state.history since it was last emptied
    glog,         \* the same for gstate.history
    trace,        \* graph nodes the request in flight has entered, in order
    run,          \* the supervisor run: model calls, sub-agent calls, outcome
    turn,         \* the current model turn: transcript length before it, its calls
    lrun, lturn,  \* the same for the leaf run
    threads,      \* google.py callers: operation, service, position, result
    slock,        \* _SERVICE_LOCK: 0 when free, else the holding thread
    services,     \* _GMAIL_SERVICE / _CALENDAR_SERVICE: 0 is None, else an instance
    builds,       \* every build(...) that returned: service, thread, instance (history)
    entered,      \* every acquisition of _SERVICE_LOCK: service, thread (history)
    cons,         \* the consumer loop: position, item, event, evaluation, result
    store,        \* the eval server's records, one per POST answered 200
    elog,         \* pushes, pops, scorer calls, POSTs and stops so far (history)
    ebudget,      \* publishes and disturbances still to come (environment)
    equeue,       \* the Redis list EVAL_QUEUE_NAME: serialized items, head first
    redis,        \* whether Redis answers the agents' process: "up" or "down"
    lconn,        \* the leaf run's MCP client: "none", "open", "closed"
    opened,       \* per sub-agent: connections its runs opened so far (history)
    leafRuns,     \* further sub-agent invocations of this process (environment)
    \* application of one function to drawn arguments
    fn,
    \* src/agent/mcp_servers/orchestrator.py: one MCPOrchestrator object
    opc,          \* "off", "new", "entering", "failed", "open", "closed"
    oclients,     \* keys of self._clients
    ostack,       \* servers whose client self._stack has entered and not closed
    oerrors,      \* servers with an entry in errors
    onext,        \* position in OrchServers of the next server to connect
    oserved,      \* servers a tool call of the pool has reached (history)
    ostatus,      \* per server: "up", "down", or "up_no_list" (environment)
    ocallsLeft    \* tool calls the consumer still makes (environment)

sessVars == <<state, processing, pc, gstate, reqLeft, log, glog, trace>>
supVars  == <<spc, iterations, messages, pending, running, run, turn>>
leafVars == <<lagent, lpc, liter, lmessages, lpending, lrunning, lresult, lrun, lturn,
              lconn, opened, leafRuns>>
envVars  == <<toolLeft, richLeft>>
fnVars   == <<fn>>
\* what the session, the graph and the loops leave alone
poolVars == <<opc, oclients, ostack, oerrors, onext, oserved, ostatus, ocallsLeft>>
svcVars  == <<threads, slock, services, builds, entered>>
evalVars == <<cons, store, elog, ebudget>>
sideVars == <<fnVars, poolVars, svcVars, evalVars>>
queueVars == <<equeue, redis>>
vars == <<sessVars, supVars, leafVars, envVars, queueVars, sideVars>>

(***************************************************************************)
(* Initial state                                                           *)
(***************************************************************************)
\* PersonalAssistantApp.__init__
InitialState ==
    [category_to_be_served |-> "", query_to_be_served |-> "",
     history |-> <<>>, response |-> ""]

\* a history a long-running session holds: PrefillPairs rejected requests
PrefilledHistory ==
    [i \in 1..(2 * PrefillPairs) |->
        IF i % 2 = 1 THEN Message("user", "q0", NONE)
        ELSE Message("assistant", Strip(NoCategoryResponse), NONE)]

\* invoked: model calls made; delegated: tool invocations started; failed: a
\* model call raised, and atFailure the two counts at that moment; allTools:
\* every model call so far returned tool calls; answer: the model's final
\* text; outcome: how the run ended; base0: transcript length at loop entry
NoRun ==
    [invoked |-> 0, delegated |-> 0, failed |-> FALSE, atFailure |-> <<0, 0>>,
     allTools |-> TRUE, answer |-> NONE, outcome |-> NONE, base0 |-> 0]
\* base: transcript length before the model turn; calls: its tool calls;
\* iter: the iteration it belongs to; raised: the calls whose invocation
\* raised; rich: whether its calls and outcomes are drawn freely
NoTurn == [base |-> 0, calls |-> <<>>, iter |-> 0, raised |-> {}, rich |-> FALSE]

InitSup ==
    /\ spc = "off" /\ iterations = 0 /\ messages = <<>> /\ pending = <<>>
    /\ running = [name |-> NONE, args |-> NONE, id |-> <<>>] /\ run = NoRun /\ turn = NoTurn

InitLeaf ==
    /\ lagent = NONE /\ liter = 0 /\ lmessages = <<>>
    /\ lpending = <<>> /\ lrunning = [name |-> NONE, args |-> NONE, id |-> <<>>]
    /\ lresult = NONE /\ lrun = NoRun /\ lturn = NoTurn
    /\ lconn = "none" /\ opened = [a \in {"mail", "calendar", "expense"} |-> 0]

\* The runs explored.  Sessions of the app: a fresh session of several requests
\* whose models request no tools; a fresh session of one request whose
\* supervisor takes freely drawn tool turns; a long-running session (history
\* nearly full) of one request whose supervisor may request the default tool
\* call on every turn.  Calls of a sub-agent (what a sub-agent tool runs): one
\* with freely drawn tool turns, one that may request the default tool call on
\* every turn.
\* no function application under way
NoFn == [op |-> NONE, query |-> NONE, out |-> NONE, result |-> NONE, done |-> FALSE]

\* the servers of the pool, in the order __aenter__ connects them
OrchServers == <<"mail", "calendar", "expense_tracker">>
OrchServerSet == {OrchServers[i] : i \in 1..Len(OrchServers)}

\* no pool object
InitPoolOff ==
    /\ opc = "off" /\ oclients = {} /\ ostack = {} /\ oerrors = {}
    /\ onext = 1 /\ oserved = {}
    /\ ostatus = [srv \in OrchServerSet |-> "up"] /\ ocallsLeft = 0

\* google.py module state at import: no service built, the lock free
ServiceNames == {"gmail", "calendar"}
Threads == 1 .. MaxThreads
NoThread == [op |-> NONE, svc |-> NONE, pc |-> "off", ret |-> 0,
             force |-> FALSE, rest |-> <<>>]

InitServices ==
    /\ slock = 0
    /\ services = [s \in ServiceNames |-> 0]
    /\ builds = <<>> /\ entered = <<>>

InitSvcOff ==
    /\ threads = [t \in Threads |-> NoThread]
    /\ InitServices

\* the eval consumer process is not part of the run
Missing == <<"<missing>", "">>
NoItem == [json |-> FALSE, value |-> [type |-> "none"]]
NoEvent == [type |-> "none"]
NoEvaluation == [status |-> NONE, justification |-> Missing,
                 improvements |-> Missing, score |-> NONE]
NoResult == [category |-> NONE]
NoCons == [pc |-> "off", item |-> NoItem, event |-> NoEvent,
           evaluation |-> NoEvaluation, result |-> NoResult]
NoPost == [n |-> 0, outcome |-> NONE, body |-> NoResult]
NoLog == [pushed |-> <<>>, popped |-> <<>>, scored |-> <<>>, post |-> NoPost,
          lost |-> <<>>, failure |-> NONE, stops |-> {}]

InitEvalOff ==
    /\ cons = NoCons /\ store = <<>> /\ elog = NoLog
    /\ ebudget = [publishes |-> 0, disturbances |-> 0]

InitSide == fn = NoFn /\ InitPoolOff /\ InitSvcOff /\ InitEvalOff

(***************************************************************************)
(* eval_queue/publisher.py: events and the Redis list                      *)
(***************************************************************************)
RedisStates == {"up", "down"}

\* Python values handed to publish_eval_event: <<type, prefix, text>>
PyStr(prefix, text) == <<"str", prefix, text>>
PyDict == <<"dict", "", "d">>
PyInt  == <<"int", "", "7">>

\* str(x)
StrOf(v) == IF v[1] = "str" THEN v
            ELSE IF v[1] = "dict" THEN PyStr("", "{'d': 1}")
            ELSE PyStr("", v[3])

\* publisher.py 44-48: the response as a string
ResponseText(v) == IF v[1] = "str" THEN v
                   ELSE IF v[1] = "dict" THEN PyStr("", "{\"d\": 1}")
                   ELSE StrOf(v)

\* metadata arguments: a dict of JSON values, None, a dict holding an object
\* json.dumps cannot serialize
EmptyMetadata == "{}"
MetadataValues == {"{..}", "None", "unserializable"}

\* json.dumps(event) and json.loads(text): a text is what it parses to, or
\* not JSON at all
JsonDumps(value) == [json |-> TRUE, value |-> value]
NotJson == [json |-> FALSE, value |-> [type |-> "garbage"]]
JsonLoads(text) == IF text.json THEN [raised |-> FALSE, value |-> text.value]
                   ELSE [raised |-> TRUE, value |-> [type |-> "none"]]

\* the event dict of publisher.py 50-57 (the timestamp is left out)
EvalEvent(agent_name, query, response, category, metadata) ==
    [type |-> "object",
     agent_name |-> agent_name,
     query |-> StrOf(query),
     response |-> ResponseText(response),
     category |-> category,
     metadata |-> IF metadata = "None" THEN EmptyMetadata ELSE metadata]

\* mutant of Rpush: LPUSH
Rpush_at_head(q, item) == <<item>> \o q

\* redis_client.rpush
Rpush(q, item) == Append(q, item)

\* mutant of publish_eval_event: the transport error is not caught
publish_eval_event_uncaught(q, transport, agent_name, query, response, category, metadata) ==
    IF metadata = "unserializable"
    THEN [returned |-> FALSE, raised |-> FALSE, queue |-> q]
    ELSE IF transport # "up"
    THEN [returned |-> FALSE, raised |-> TRUE, queue |-> q]
    ELSE [returned |-> TRUE, raised |-> FALSE,
          queue |-> Rpush(q, JsonDumps(EvalEvent(agent_name, query, response,
                                                 category, metadata)))]

\* publish_eval_event on queue q: what it returns, whether it raises, and the
\* queue afterwards
publish_eval_event(q, transport, agent_name, query, response, category, metadata) ==
    IF metadata = "unserializable" \/ transport # "up"
    THEN [returned |-> FALSE, raised |-> FALSE, queue |-> q]
    ELSE [returned |-> TRUE, raised |-> FALSE,
          queue |-> Rpush(q, JsonDumps(EvalEvent(agent_name, query, response,
                                                 category, metadata)))]

Init ==
    /\ processing = FALSE /\ pc = "idle" /\ gstate = InitialState
    /\ trace = <<>> /\ glog = <<>>
    /\ InitSup /\ InitLeaf /\ InitSide
    /\ equeue = <<>>
    /\ \/ /\ state = InitialState /\ log = <<>> /\ lpc = "off" /\ leafRuns = 0
          /\ reqLeft = MaxRequests /\ redis = "down"
          /\ toolLeft = 0 /\ richLeft = 0
       \/ /\ state = InitialState /\ log = <<>> /\ lpc = "off" /\ leafRuns = 0
          /\ reqLeft = 1 /\ redis = "up"
          /\ toolLeft = MaxRichTurns /\ richLeft = MaxRichTurns
       \/ /\ state = [InitialState EXCEPT !.history = PrefilledHistory]
          /\ log = PrefilledHistory /\ lpc = "off" /\ leafRuns = 0
          /\ reqLeft = 1 /\ redis = "up"
          /\ toolLeft = MAX_ITERATIONS + 1 /\ richLeft = 0
       \/ /\ state = InitialState /\ log = <<>> /\ lpc = "ready" /\ leafRuns = 0
          /\ reqLeft = 0 /\ redis = "up"
          /\ toolLeft = MaxRichTurns /\ richLeft = MaxRichTurns
       \/ /\ state = InitialState /\ log = <<>> /\ lpc = "ready" /\ leafRuns = 0
          /\ reqLeft = 0 /\ redis \in RedisStates
          /\ toolLeft = LEAF_MAX_ITERATIONS + 1 /\ richLeft = 0
       \/ /\ state = InitialState /\ log = <<>> /\ lpc = "ready"
          /\ leafRuns = MaxLeafRuns - 1
          /\ reqLeft = 0 /\ redis \in RedisStates
          /\ toolLeft = 0 /\ richLeft = 0

(***************************************************************************)
(* Inputs                                                                  *)
(***************************************************************************)
\* what the user types
RawInputs == {" q1 "}

\* outcome of one call to the rewriting / routing model: a text, or the call
\* raises (transport error, HTTP error status, OLLAMA_BASE_URL unset)
Categories ==
    {"mail", "calendar", "drive", "expense_tracker", "expense",
     "resume_preparation", " Resume ", "none", "weather"}

RouterTexts ==
    {Text("json", JObject({"category"}, c, NONE)) : c \in Categories}
    \cup {Text("embedded", JObject({"category"}, "mail", NONE)),
          Text("json", JObject({}, NONE, NONE)),
          Text("json", JObject({"label"}, NONE, NONE)),
          Text("json", JString("mail")),
          Text("json", JString("the category is mail")),
          Text("json", JArray({"category"})),
          Text("json", JNumber),
          Text("embedded_bad", PyNone),
          Text("garbage", PyNone)}

RewriterTexts ==
    {Text("json", JObject({"rewritten_query"}, NONE, " rq ")),
     Text("embedded", JObject({"rewritten_query"}, NONE, " rq ")),
     Text("json", JObject({"rewritten_query"}, NONE, "  ")),
     Text("json", JObject({"rewritten_query"}, NONE, "")),
     Text("json", JObject({"rewritten_query"}, NONE, NONE)),
     Text("json", JObject({"rewritten_query"}, NONE, JsonNumberValue)),
     Text("json", JObject({"answer"}, NONE, NONE)),
     Text("json", JObject({}, NONE, NONE)),
     Text("json", JNumber),
     Text("json", JString("rq")),
     Text("json", JArray({"rewritten_query"})),
     Text("embedded_bad", PyNone),
     Text("garbage", PyNone)}

Raises == [kind |-> "raise", value |-> PyNone]

(***************************************************************************)
(* The session: src/agent/main.py                                          *)
(***************************************************************************)
\* on_input_submitted -> process_query, up to the await of graph.ainvoke
StartRequest ==
    /\ pc = "idle" /\ lpc = "off" /\ reqLeft > 0
    /\ ~processing
    /\ \E raw \in RawInputs :
         LET user_input == Strip(raw)
             msg == Message("user", user_input, NONE)
             st == [state EXCEPT !.history = push_history(@, msg),
                                 !.query_to_be_served = user_input]
         IN /\ state' = st
            /\ gstate' = st
            /\ log' = Append(log, msg)
            /\ glog' = Append(log, msg)
    /\ processing' = TRUE
    /\ pc' = "query_rewriter"
    /\ trace' = <<>>
    /\ run' = NoRun /\ turn' = NoTurn
    /\ reqLeft' = reqLeft - 1
    /\ UNCHANGED <<sideVars, queueVars, spc, iterations, messages, pending, running, leafVars, envVars>>

\* what the user submits while a request is in flight
BusyInputs == {" q2 ", "/clear", "/history", "  "}

\* mutant of SubmitWhileBusy: the message is appended although a request is
\* in flight
SubmitWhileBusy_appends ==
    /\ processing /\ reqLeft > 0
    /\ reqLeft' = reqLeft - 1
    /\ \E raw \in BusyInputs :
         /\ Strip(raw) # ""
         /\ state' = [state EXCEPT !.history =
                          push_history(@, Message("user", Strip(raw), NONE))]
         /\ log' = Append(log, Message("user", Strip(raw), NONE))
    /\ UNCHANGED <<sideVars, queueVars, processing, pc, gstate, glog, trace,
                   supVars, leafVars, envVars>>

\* on_input_submitted while self.processing is set: a notice in the chat,
\* and nothing else, for messages and commands alike
SubmitWhileBusy ==
    /\ processing /\ reqLeft > 0
    /\ reqLeft' = reqLeft - 1
    /\ \E raw \in BusyInputs : Strip(raw) # ""
    /\ UNCHANGED <<sideVars, queueVars, state, log, processing, pc, gstate, glog, trace,
                   supVars, leafVars, envVars>>

\* handle_command("/clear") and action_clear
Clear ==
    /\ pc = "idle" /\ lpc = "off"
    /\ state.history # <<>>
    /\ state' = InitialState
    /\ log' = <<>>
    /\ UNCHANGED <<sideVars, queueVars, processing, pc, gstate, reqLeft, glog, trace,
                   supVars, leafVars, envVars>>

\* action_clear (Ctrl+L) while a request is in flight, one of the user's
\* reqLeft actions: the binding has no test of self.processing, and clears
\* the dict process_query handed to the graph; the graph goes on with its
\* own copy
ActionClearInFlight ==
    /\ processing /\ reqLeft > 0
    /\ state.history # <<>>
    /\ reqLeft' = reqLeft - 1
    /\ state' = InitialState
    /\ log' = <<>>
    /\ UNCHANGED <<sideVars, queueVars, processing, pc, gstate, glog, trace,
                   supVars, leafVars, envVars>>

\* process_query writing the returned state back without the reply
FinishRequest_without_reply ==
    /\ pc = "END"
    /\ state' = gstate
    /\ log' = glog
    /\ gstate' = InitialState /\ glog' = <<>>
    /\ processing' = FALSE
    /\ pc' = "idle"
    /\ UNCHANGED <<sideVars, queueVars, reqLeft, trace, supVars, leafVars, envVars>>

\* process_query after graph.ainvoke returned
FinishRequest ==
    /\ pc = "END"
    /\ LET stripped == Strip(gstate.response)
           reply == IF stripped = "" THEN "I processed your request." ELSE stripped
           msg == Message("assistant", reply, NONE)
       IN /\ state' = [gstate EXCEPT !.history = push_history(@, msg)]
          /\ log' = Append(glog, msg)
    /\ gstate' = InitialState /\ glog' = <<>>
    /\ processing' = FALSE
    /\ pc' = "idle"
    /\ UNCHANGED <<sideVars, queueVars, reqLeft, trace, supVars, leafVars, envVars>>

\* mutant of FinishRaised: the error shown in the chat is also appended to
\* the history as an assistant entry
FinishRaised_appends ==
    /\ pc = "raised"
    /\ state' = [state EXCEPT !.history =
                    push_history(@, Message("assistant", "boom", NONE))]
    /\ log' = Append(log, Message("assistant", "boom", NONE))
    /\ gstate' = InitialState /\ glog' = <<>>
    /\ processing' = FALSE
    /\ pc' = "idle"
    /\ UNCHANGED <<sideVars, queueVars, reqLeft, trace, supVars, leafVars, envVars>>

\* process_query when graph.ainvoke raised: except, finally
FinishRaised ==
    /\ pc = "raised"
    /\ gstate' = InitialState /\ glog' = <<>>
    /\ processing' = FALSE
    /\ pc' = "idle"
    /\ UNCHANGED <<sideVars, queueVars, state, log, reqLeft, trace, supVars, leafVars, envVars>>

(***************************************************************************)
(* The graph nodes                                                         *)
(***************************************************************************)
\* the publish_eval_event calls of rewrite_node and router_node
RewriterPublish(original_query, rewritten) ==
    publish_eval_event(equeue, redis, "query_rewriter",
                       PyStr("Original: ", original_query),
                       PyStr("Rewritten: ", rewritten),
                       "query_rewriter", "{..}").queue

RouterPublish(query, category) ==
    publish_eval_event(equeue, redis, "router_agent",
                       PyStr("Query: ", query), PyStr("Category: ", category),
                       "router", "{..}").queue

\* rewrite_node (src/agent/agents/query_rewriter.py), as the graph's first node
RewriteNode ==
    /\ pc = "query_rewriter"
    /\ trace' = Append(trace, "query_rewriter")
    /\ \E out \in RewriterTexts \cup {Raises} :
         IF out.kind = "raise"
         THEN /\ pc' = "raised" /\ UNCHANGED <<gstate, equeue>>
         ELSE /\ gstate' = [gstate EXCEPT !.query_to_be_served =
                              RewriteQuery(gstate.query_to_be_served, out)]
              /\ equeue' = RewriterPublish(gstate.query_to_be_served,
                                           gstate'.query_to_be_served)
              /\ pc' = "router"
    /\ UNCHANGED <<sideVars, redis, state, processing, reqLeft, log, glog, supVars, leafVars, envVars>>

\* router_node (src/agent/agents/router_agent.py) and the conditional edge
RouterNode ==
    /\ pc = "router"
    /\ trace' = Append(trace, "router")
    /\ \E out \in RouterTexts \cup {Raises} :
         IF out.kind = "raise" \/ RouteCategory(out).raised
         THEN /\ pc' = "raised" /\ UNCHANGED <<gstate, equeue>>
         ELSE /\ gstate' = [gstate EXCEPT !.category_to_be_served =
                              RouteCategory(out).value]
              /\ equeue' = RouterPublish(gstate.query_to_be_served,
                                         gstate'.category_to_be_served)
              /\ pc' = _route_decider(gstate'.category_to_be_served)
    /\ UNCHANGED <<sideVars, redis, state, processing, reqLeft, log, glog, supVars, leafVars, envVars>>

\* no_category_handler
NoneNode ==
    /\ pc = "none"
    /\ trace' = Append(trace, "none")
    /\ gstate' = [gstate EXCEPT !.response = NoCategoryResponse]
    /\ pc' = "END"
    /\ UNCHANGED <<sideVars, queueVars, state, processing, reqLeft, log, glog, supVars, leafVars, envVars>>

\* the resume subgraph entering its handler without a rewriter pass
ResumeRewriteNode_skipped ==
    /\ pc = "resume"
    /\ trace' = Append(trace, "resume")
    /\ pc' = "resume_handler"
    /\ UNCHANGED <<sideVars, queueVars, state, processing, gstate, reqLeft, log, glog, supVars,
                   leafVars, envVars>>

\* the resume subgraph (src/agent/schema/init_resume_agent_graph.py):
\* its own query_rewriter node
ResumeRewriteNode ==
    /\ pc = "resume"
    /\ trace' = trace \o <<"resume", "resume.query_rewriter">>
    /\ \E out \in RewriterTexts \cup {Raises} :
         IF out.kind = "raise"
         THEN /\ pc' = "raised" /\ UNCHANGED <<gstate, equeue>>
         ELSE /\ gstate' = [gstate EXCEPT !.query_to_be_served =
                              RewriteQuery(gstate.query_to_be_served, out)]
              /\ equeue' = RewriterPublish(gstate.query_to_be_served,
                                           gstate'.query_to_be_served)
              /\ pc' = "resume_handler"
    /\ UNCHANGED <<sideVars, redis, state, processing, reqLeft, log, glog, supVars, leafVars, envVars>>

\* resume_handler (src/agent/agents/resume_agent.py)
ResumeTexts == {"resume text", ""}

ResumeHandlerNode ==
    /\ pc = "resume_handler"
    /\ trace' = Append(trace, "resume.resume_handler")
    /\ LET query == Strip(gstate.query_to_be_served) IN
       \E out \in ResumeTexts \cup {"raise"} :
         IF query = ""
         THEN /\ gstate' = [gstate EXCEPT !.response = ""] /\ pc' = "END"
         ELSE IF out = "raise"
         THEN /\ pc' = "raised" /\ UNCHANGED gstate
         ELSE /\ gstate' = [gstate EXCEPT !.response = Strip(out)]
              /\ pc' = "END"
    /\ UNCHANGED <<sideVars, queueVars, state, processing, reqLeft, log, glog, supVars, leafVars, envVars>>

(***************************************************************************)
(* The supervisor: src/agent/agents/master.py, handle_master               *)
(***************************************************************************)
\* src/agent/agents/sub_agent_tools.py
SUB_AGENT_TOOLS == <<"mail_agent_tool", "calendar_agent_tool", "expense_agent_tool">>

\* names a model may put in a tool call
RequestedToolNames ==
    {"expense_agent_tool", "drive_agent_tool"}

\* f"Delegating to {tool_name}"
DelegatingTo(tool_name) ==
    CASE tool_name = "mail_agent_tool" -> "Delegating to mail_agent_tool"
      [] tool_name = "calendar_agent_tool" -> "Delegating to calendar_agent_tool"
      [] tool_name = "expense_agent_tool" -> "Delegating to expense_agent_tool"
      [] tool_name = "drive_agent_tool" -> "Delegating to drive_agent_tool"

\* json.dumps({"error": f"Unknown tool: {tool_name}"})
UnknownToolError(tool_name) ==
    CASE tool_name = "mail_agent_tool" -> "{\"error\": \"Unknown tool: mail_agent_tool\"}"
      [] tool_name = "calendar_agent_tool" -> "{\"error\": \"Unknown tool: calendar_agent_tool\"}"
      [] tool_name = "expense_agent_tool" -> "{\"error\": \"Unknown tool: expense_agent_tool\"}"
      [] tool_name = "drive_agent_tool" -> "{\"error\": \"Unknown tool: drive_agent_tool\"}"

\* json.dumps({"error": str(e)}) for the one exception text "boom"
RaisedError == "{\"error\": \"boom\"}"

\* texts json.loads accepts
JsonTexts ==
    {UnknownToolError(n) : n \in RequestedToolNames}
    \cup {RaisedError, "{\"status\": \"sent\"}"}

\* what a sub-agent returns to the supervisor
SubAgentResults == {"done"}

\* structured_response: json.loads(result_content), else {"content": result_content}
Structured(content) ==
    IF content \in JsonTexts THEN <<"parsed", content>> ELSE <<"content", content>>

\* json.dumps(structured_response)
DumpStructured(sr) ==
    IF sr[1] = "parsed" THEN sr[2]
    ELSE CASE sr[2] = "done" -> "{\"content\": \"done\"}"
           [] OTHER -> "{\"content\": ...}"

ToolCall(name, args, id) == [name |-> name, args |-> args, id |-> id]
NoToolCall == ToolCall(NONE, NONE, NoId)

\* LangChain messages of a transcript
SystemMessage(content) ==
    [type |-> "system", content |-> content, tool_calls |-> <<>>,
     tool_call_id |-> NoId, name |-> NONE]
HumanMessage(content) ==
    [type |-> "human", content |-> content, tool_calls |-> <<>>,
     tool_call_id |-> NoId, name |-> NONE]
AIMessage(content, tool_calls) ==
    [type |-> "ai", content |-> content, tool_calls |-> tool_calls,
     tool_call_id |-> NoId, name |-> NONE]
ToolMessage(content, tool_call_id, name) ==
    [type |-> "tool", content |-> content, tool_calls |-> <<>>,
     tool_call_id |-> tool_call_id, name |-> name]

\* one history entry as _build_langchain_messages_from_history converts it:
\* a sequence of zero or one message
ConvertEntry(msg) ==
    CASE msg.role = "user" ->
            IF msg.content # "" THEN <<HumanMessage(msg.content)>> ELSE <<>>
      [] msg.role \in {"assistant", "model"} ->
            IF msg.function_call # NoCall
            THEN <<AIMessage("", <<ToolCall(msg.function_call.name,
                                           msg.function_call.args,
                                           msg.tool_call_id)>>)>>
            ELSE IF msg.content # "" THEN <<AIMessage(msg.content, <<>>)>>
            ELSE <<>>
      [] msg.role = "tool" ->
            LET sr == IF msg.structured_response # NoStructured
                      THEN msg.structured_response
                      ELSE Structured(msg.content)
            IN <<ToolMessage(DumpStructured(sr), msg.tool_call_id, msg.name)>>
      [] OTHER -> <<>>

RECURSIVE ConvertAll(_)
ConvertAll(h) ==
    IF h = <<>> THEN <<>> ELSE ConvertEntry(Head(h)) \o ConvertAll(Tail(h))

_build_langchain_messages_from_history(history, query, system_prompt) ==
    <<SystemMessage(system_prompt)>>
    \o ConvertAll(LastN(history, HISTORY_CAP))
    \o (IF query # "" THEN <<HumanMessage(query)>> ELSE <<>>)

\* the delegation entry and the tool-result entry handle_master stores
\* the delegation entry without the call id
DelegationEntry_without_id(call) ==
    [Message("assistant", DelegatingTo(call.name), NONE) EXCEPT
        !.function_call = [name |-> call.name, args |-> call.args]]

DelegationEntry(call) ==
    [Message("assistant", DelegatingTo(call.name), NONE) EXCEPT
        !.function_call = [name |-> call.name, args |-> call.args],
        !.tool_call_id = call.id]
ToolResultEntry(call, result_content) ==
    [Message("tool", result_content, call.name) EXCEPT
        !.structured_response = Structured(result_content),
        !.tool_call_id = call.id]

\* for tool in SUB_AGENT_TOOLS: if tool.name == tool_name
\* the lookup falling back on the first registered tool
FindTool_falls_back(tool_name) ==
    IF \E i \in 1..Len(SUB_AGENT_TOOLS) : SUB_AGENT_TOOLS[i] = tool_name
    THEN tool_name ELSE SUB_AGENT_TOOLS[1]

FindTool(tool_name) ==
    IF \E i \in 1..Len(SUB_AGENT_TOOLS) : SUB_AGENT_TOOLS[i] = tool_name
    THEN tool_name ELSE NONE

\* the tool calls of one model turn: the default turn asks the mail sub-agent
\* once; a freely drawn turn asks 1..MaxToolCalls sub-agents by any names
DefaultCalls(tools, it) == <<ToolCall(tools[1], "task", <<it, 1>>)>>

CallLists(names, it) ==
    UNION {{[i \in 1..k |-> ToolCall(f[i], "task", <<it, i>>)] :
                f \in [1..k -> names]} : k \in 1..MaxToolCalls}

\* what one model invocation returns: a text, tool calls, or it raises
ModelTexts == {"ans", ""}

\* handle_master up to the loop: credentials, model construction, transcript
SupEnter ==
    /\ pc = "master" /\ spc = "off"
    /\ trace' = Append(trace, "master")
    /\ \E setup \in {"ok", "no_api_key", "raise"} :
         CASE setup = "no_api_key" ->
                /\ gstate' = [gstate EXCEPT !.response = "Error: GEMINI_API_KEY is not set."]
                /\ run' = [run EXCEPT !.outcome = "no_api_key"]
                /\ pc' = "END"
                /\ UNCHANGED <<spc, iterations, messages>>
           [] setup = "raise" ->
                /\ gstate' = [gstate EXCEPT !.response = "Error: boom"]
                /\ run' = [run EXCEPT !.outcome = "setup_error"]
                /\ pc' = "END"
                /\ UNCHANGED <<spc, iterations, messages>>
           [] setup = "ok" ->
                /\ messages' = _build_langchain_messages_from_history(
                                   gstate.history, gstate.query_to_be_served,
                                   "MASTER_AGENT_SYSTEM_PROMPT")
                /\ iterations' = 0
                /\ spc' = "loop"
                /\ run' = [run EXCEPT !.base0 = Len(messages')]
                /\ UNCHANGED <<gstate, pc>>
    /\ UNCHANGED <<sideVars, queueVars, state, processing, reqLeft, log, glog, pending, running, turn,
                   leafVars, envVars>>

\* the loop test off by one: iterations <= MAX_ITERATIONS
SupLoopGuard_off_by_one(it) == it <= MAX_ITERATIONS

\* the loop test
SupLoopGuard(it) == it < MAX_ITERATIONS

\* the model call raised but the loop goes on to the next iteration
SupModelRaised_swallowed ==
    /\ run' = [run EXCEPT !.invoked = @ + 1, !.failed = TRUE,
                          !.atFailure = <<run.invoked + 1, run.delegated>>,
                          !.allTools = FALSE]
    /\ UNCHANGED <<gstate, pc, spc, messages, pending, turn, envVars>>

\* the model call raised: except Exception, the error response, return
SupModelRaised ==
    /\ gstate' = [gstate EXCEPT !.response = "Error: boom"]
    /\ run' = [run EXCEPT !.invoked = @ + 1, !.failed = TRUE,
                          !.atFailure = <<run.invoked + 1, run.delegated>>,
                          !.allTools = FALSE, !.outcome = "model_error"]
    /\ pc' = "END" /\ spc' = "off"
    /\ UNCHANGED <<messages, pending, turn, envVars>>

\* one iteration up to its first tool call: iterations += 1, the model call,
\* the final answer or the model turn appended to the transcript
SupInvoke ==
    /\ pc = "master" /\ spc = "loop"
    /\ SupLoopGuard(iterations)
    /\ iterations' = iterations + 1
    /\ \/ SupModelRaised
       \/ \* no tool calls: the final answer
          \E final_text \in ModelTexts :
          /\ gstate' = [gstate EXCEPT !.response =
                          IF final_text # "" THEN final_text
                          ELSE "I processed your request."]
          /\ run' = [run EXCEPT !.invoked = @ + 1, !.allTools = FALSE,
                                !.answer = final_text, !.outcome = "answer"]
          /\ pc' = "END" /\ spc' = "off"
          /\ UNCHANGED <<messages, pending, turn, envVars>>
       \/ \* tool calls
          /\ toolLeft > 0
          /\ \E rich \in BOOLEAN :
             \E calls \in IF rich THEN CallLists(RequestedToolNames, iterations')
                          ELSE {DefaultCalls(SUB_AGENT_TOOLS, iterations')} :
               /\ rich => richLeft > 0
               /\ richLeft' = IF rich THEN richLeft - 1 ELSE richLeft
               /\ messages' = Append(messages, AIMessage("", calls))
               /\ pending' = calls
               /\ turn' = [base |-> Len(messages), calls |-> calls,
                           iter |-> iterations', raised |-> {}, rich |-> rich]
          /\ toolLeft' = toolLeft - 1
          /\ run' = [run EXCEPT !.invoked = @ + 1]
          /\ spc' = "tools"
          /\ UNCHANGED <<gstate, pc>>
    /\ UNCHANGED <<sideVars, queueVars, state, processing, reqLeft, log, glog, trace, running, leafVars>>

\* the loop ran out of iterations
SupLimit ==
    /\ pc = "master" /\ spc = "loop"
    /\ ~SupLoopGuard(iterations)
    /\ gstate' = [gstate EXCEPT !.response =
                    "I processed your request but reached the iteration limit."]
    /\ run' = [run EXCEPT !.outcome = "limit"]
    /\ pc' = "END" /\ spc' = "off"
    /\ UNCHANGED <<sideVars, queueVars, state, processing, reqLeft, log, glog, trace, iterations,
                   messages, pending, running, turn, leafVars, envVars>>

\* after a tool call: the next call of the turn, or the next iteration
AfterCall(rest) == IF rest = <<>> THEN "loop" ELSE "tools"

\* the tool message carrying the tool's name in place of the call id
RecordResult_name_as_id(call, result_content) ==
    /\ messages' = Append(messages,
                     ToolMessage(result_content, <<0, 0>>, call.name))
    /\ gstate' = [gstate EXCEPT !.history =
                    push_history(@, ToolResultEntry(call, result_content))]
    /\ glog' = Append(glog, ToolResultEntry(call, result_content))

\* the transcript and the history after a tool call produced result_content
RecordResult(call, result_content) ==
    /\ messages' = Append(messages,
                     ToolMessage(result_content, call.id, call.name))
    /\ gstate' = [gstate EXCEPT !.history =
                    push_history(@, ToolResultEntry(call, result_content))]
    /\ glog' = Append(glog, ToolResultEntry(call, result_content))

\* a tool call naming no registered sub-agent: delegation entry, error result
SupToolUnknown ==
    /\ pc = "master" /\ spc = "tools" /\ running = NoToolCall
    /\ pending # <<>>
    /\ LET call == Head(pending) IN
       /\ FindTool(call.name) = NONE
       /\ messages' = Append(messages,
             ToolMessage(UnknownToolError(call.name), call.id, call.name))
       /\ gstate' = [gstate EXCEPT !.history =
             push_history(push_history(@, DelegationEntry(call)),
                          ToolResultEntry(call, UnknownToolError(call.name)))]
       /\ glog' = glog \o <<DelegationEntry(call),
                            ToolResultEntry(call, UnknownToolError(call.name))>>
    /\ pending' = Tail(pending)
    /\ spc' = AfterCall(pending')
    /\ UNCHANGED <<sideVars, queueVars, state, processing, pc, reqLeft, log, trace, iterations,
                   running, run, turn, leafVars, envVars>>

\* a tool call naming a registered sub-agent, up to the await of the sub-agent
SupToolStart ==
    /\ pc = "master" /\ spc = "tools" /\ running = NoToolCall
    /\ pending # <<>>
    /\ LET call == Head(pending) IN
       /\ FindTool(call.name) # NONE
       /\ gstate' = [gstate EXCEPT !.history =
                       push_history(@, DelegationEntry(call))]
       /\ glog' = Append(glog, DelegationEntry(call))
       /\ running' = call
    /\ run' = [run EXCEPT !.delegated = @ + 1]
    /\ UNCHANGED <<sideVars, queueVars, state, processing, pc, reqLeft, log, trace, spc, iterations,
                   messages, pending, turn, leafVars, envVars>>

\* position in the turn of the call being executed
CallIndex(t, rest) == Len(t.calls) - Len(rest) + 1

\* the sub-agent returned result: tool message, tool-result entry, next call
SupToolReturned(call, result) ==
    /\ RecordResult(call, result)
    /\ running' = NoToolCall
    /\ pending' = Tail(pending)
    /\ spc' = AfterCall(pending')
    /\ UNCHANGED <<pc, run, turn>>

\* the sub-agent invocation raised and the exception reaches the outer except
SupToolRaised_ends_run(call) ==
    /\ gstate' = [gstate EXCEPT !.response = "Error: boom"]
    /\ turn' = [turn EXCEPT !.raised = @ \cup {CallIndex(turn, pending)}]
    /\ run' = [run EXCEPT !.outcome = "model_error", !.failed = TRUE,
                          !.atFailure = <<run.invoked, run.delegated>>]
    /\ running' = NoToolCall
    /\ pc' = "END" /\ spc' = "off"
    /\ UNCHANGED <<glog, messages, pending>>

\* the sub-agent invocation raised: except Exception, then the same path
SupToolRaised(call) ==
    /\ RecordResult(call, RaisedError)
    /\ turn' = [turn EXCEPT !.raised = @ \cup {CallIndex(turn, pending)}]
    /\ running' = NoToolCall
    /\ pending' = Tail(pending)
    /\ spc' = AfterCall(pending')
    /\ UNCHANGED <<pc, run>>

SupToolFinish ==
    /\ pc = "master" /\ spc = "tools" /\ running # NoToolCall
    /\ \/ \E result \in SubAgentResults : SupToolReturned(running, result)
       \/ turn.rich /\ SupToolRaised(running)
    /\ UNCHANGED <<sideVars, queueVars, state, processing, reqLeft, log, trace, iterations,
                   leafVars, envVars>>

(***************************************************************************)
(* The leaf sub-agents: src/agent/agents/mail_agent.py (execute_mail_agent),*)
(* calendar_agent.py (execute_calendar_agent), expense_tracker_agent.py    *)
(* (execute_expense_agent).  The three bodies differ in the order of the   *)
(* credential checks and in their texts.                                   *)
(***************************************************************************)
LeafAgents == {"mail", "calendar", "expense"}

LeafPrompt(agent) ==
    CASE agent = "mail" -> "MAIL_AGENT_PROMPT"
      [] agent = "calendar" -> "CALENDAR_AGENT_PROMPT"
      [] agent = "expense" -> "EXPENSE_AGENT_PROMPT"

LeafLimitMessage(agent) ==
    CASE agent = "mail" -> "Mail operation completed but reached iteration limit."
      [] agent = "calendar" -> "Calendar operation completed but reached iteration limit."
      [] agent = "expense" -> "Expense operation completed but reached iteration limit."

\* f"Error in mail agent: {str(e)}" for the one exception text "boom"
LeafErrorMessage(agent) ==
    CASE agent = "mail" -> "Error in mail agent: boom"
      [] agent = "calendar" -> "Error in calendar agent: boom"
      [] agent = "expense" -> "Error in expense agent: boom"

\* mutant of LeafExcept: the exception leaves the sub-agent
LeafExcept_reraises(agent) == [pc |-> "raised", returns |-> NONE]

\* the except Exception clause around the async with block: the sub-agent
\* returns the error string
LeafExcept(agent) == [pc |-> "done", returns |-> LeafErrorMessage(agent)]

\* the credential checks: mail and expense test GEMINI_MODEL first,
\* calendar tests GEMINI_API_KEY first
MissingCredential(agent, has_model, has_key) ==
    IF agent = "calendar"
    THEN IF ~has_key THEN "Error: GEMINI_API_KEY is not set."
         ELSE IF ~has_model THEN "Error: GEMINI_MODEL is not set."
         ELSE NONE
    ELSE IF ~has_model THEN "Error: GEMINI_MODEL is not set."
         ELSE IF ~has_key THEN "Error: GEMINI_API_KEY is not set."
         ELSE NONE

\* tool names a leaf model may request; the last is no tool of the server
LeafTools == <<"remote_tool", "no_such_tool">>
RequestedLeafTools == {LeafTools[i] : i \in 1..Len(LeafTools)}

\* what client.call_tool does: it raises, or returns a result whose first
\* content item is JSON text, plain text, no text item, or that has no content
RemoteOutcomes ==
    {"raise", "json_text", "plain_text", "non_text", "no_content"}

\* result_content of one tool call
LeafResultContent(outcome) ==
    CASE outcome = "raise" -> RaisedError
      [] outcome = "json_text" -> "{\"id\": 1}"      \* json.dumps(json.loads("{ \"id\":1 }"))
      [] outcome = "plain_text" -> "plain text"
      [] outcome = "non_text" -> "str(content_item)"
      [] outcome = "no_content" -> "str(result)"

\* the query a leaf sub-agent is invoked with
LeafQuery == "task"

\* the final-answer return of a leaf sub-agent: only execute_calendar_agent
\* publishes an eval event there
LeafPublish(agent, query, final_response) ==
    IF agent = "calendar"
    THEN publish_eval_event(equeue, redis, "calendar_agent", PyStr("", query),
                            PyStr("", final_response), "calendar", "{..}").queue
    ELSE equeue

\* entering the client's async with block and listing the server's tools
ConnectOutcomes == {"ok", "connect_raise", "list_raise"}

\* mutant of ExitAsyncWith: leaving the block leaves the client as it is
ExitAsyncWith_keeps(conn) == conn

\* leaving the `async with <client>:` block, by return or by exception:
\* __aexit__ closes the client's connection
ExitAsyncWith(conn) == "closed"

\* execute_*_agent up to the loop: credentials, connection, tool listing
LeafEnter ==
    /\ lpc = "ready"
    /\ \E agent \in LeafAgents, has_model \in BOOLEAN, has_key \in BOOLEAN,
          connect \in ConnectOutcomes :
         /\ lagent' = agent
         /\ IF MissingCredential(agent, has_model, has_key) # NONE
            THEN /\ lresult' = MissingCredential(agent, has_model, has_key)
                 /\ lrun' = [lrun EXCEPT !.outcome = "no_credential"]
                 /\ lpc' = "done"
                 /\ UNCHANGED <<liter, lmessages, lconn, opened>>
            ELSE IF connect = "connect_raise"
            THEN \* async with <client> raised on entry
                 /\ lresult' = LeafExcept(agent).returns
                 /\ lrun' = [lrun EXCEPT !.outcome = "setup_error"]
                 /\ lpc' = LeafExcept(agent).pc
                 /\ UNCHANGED <<liter, lmessages, lconn, opened>>
            ELSE IF connect = "list_raise"
            THEN \* connected, list_tools raised, the async with block exits
                 /\ opened' = [opened EXCEPT ![agent] = @ + 1]
                 /\ lconn' = ExitAsyncWith("open")
                 /\ lresult' = LeafExcept(agent).returns
                 /\ lrun' = [lrun EXCEPT !.outcome = "setup_error"]
                 /\ lpc' = LeafExcept(agent).pc
                 /\ UNCHANGED <<liter, lmessages>>
            ELSE /\ opened' = [opened EXCEPT ![agent] = @ + 1]
                 /\ lconn' = "open"
                 /\ lmessages' = <<SystemMessage(LeafPrompt(agent)),
                                   HumanMessage(LeafQuery)>>
                 /\ liter' = 0
                 /\ lpc' = "loop"
                 /\ lrun' = [lrun EXCEPT !.base0 = Len(lmessages')]
                 /\ UNCHANGED lresult
    /\ UNCHANGED <<sideVars, queueVars, sessVars, supVars, envVars, lpending, lrunning, lturn,
                   leafRuns>>

\* the loop test
LeafLoopGuard(it) == it < LEAF_MAX_ITERATIONS

\* one iteration up to its first tool call
LeafInvoke ==
    /\ lpc = "loop"
    /\ LeafLoopGuard(liter)
    /\ liter' = liter + 1
    /\ \/ \* the model call raises: the outer except
          /\ lresult' = LeafExcept(lagent).returns
          /\ lrun' = [lrun EXCEPT !.invoked = @ + 1, !.failed = TRUE,
                                  !.atFailure = <<lrun.invoked + 1, lrun.delegated>>,
                                  !.allTools = FALSE, !.outcome = "model_error"]
          /\ lpc' = LeafExcept(lagent).pc /\ lconn' = ExitAsyncWith(lconn)
          /\ UNCHANGED <<lmessages, lpending, lturn, envVars, equeue>>
       \/ \* no tool calls: the final answer
          \E final_text \in ModelTexts :
          /\ lresult' = IF final_text # "" THEN final_text ELSE "Task completed."
          /\ lrun' = [lrun EXCEPT !.invoked = @ + 1, !.allTools = FALSE,
                                  !.answer = final_text, !.outcome = "answer"]
          /\ equeue' = LeafPublish(lagent, LeafQuery, lresult')
          /\ lpc' = "done" /\ lconn' = ExitAsyncWith(lconn)
          /\ UNCHANGED <<lmessages, lpending, lturn, envVars>>
       \/ \* tool calls
          /\ toolLeft > 0
          /\ \E rich \in BOOLEAN :
             \E calls \in IF rich THEN CallLists(RequestedLeafTools, liter')
                          ELSE {DefaultCalls(LeafTools, liter')} :
               /\ rich => richLeft > 0
               /\ richLeft' = IF rich THEN richLeft - 1 ELSE richLeft
               /\ lmessages' = Append(lmessages, AIMessage("", calls))
               /\ lpending' = calls
               /\ lturn' = [base |-> Len(lmessages), calls |-> calls,
                            iter |-> liter', raised |-> {}, rich |-> rich]
          /\ toolLeft' = toolLeft - 1
          /\ lrun' = [lrun EXCEPT !.invoked = @ + 1]
          /\ lpc' = "tools"
          /\ UNCHANGED <<lresult, lconn, equeue>>
    /\ UNCHANGED <<sideVars, redis, sessVars, supVars, lagent, lrunning, opened, leafRuns>>

\* the loop ran out of iterations
LeafLimit ==
    /\ lpc = "loop"
    /\ ~LeafLoopGuard(liter)
    /\ lresult' = LeafLimitMessage(lagent)
    /\ lrun' = [lrun EXCEPT !.outcome = "limit"]
    /\ lpc' = "done" /\ lconn' = ExitAsyncWith(lconn)
    /\ UNCHANGED <<sideVars, queueVars, sessVars, supVars, envVars, lagent, liter, lmessages,
                   opened, leafRuns,
                   lpending, lrunning, lturn>>

\* a tool call, up to the await of client.call_tool
LeafToolStart ==
    /\ lpc = "tools" /\ lrunning = NoToolCall
    /\ lpending # <<>>
    /\ lrunning' = Head(lpending)
    /\ lrun' = [lrun EXCEPT !.delegated = @ + 1]
    /\ UNCHANGED <<sideVars, queueVars, sessVars, supVars, envVars, lagent, lpc, liter, lmessages,
                   lconn, opened, leafRuns,
                   lpending, lresult, lturn>>

\* call_tool returned: the tool message, next call
LeafToolReturned(call, outcome) ==
    /\ lmessages' = Append(lmessages,
           ToolMessage(LeafResultContent(outcome), call.id, call.name))
    /\ lrunning' = NoToolCall
    /\ lpending' = Tail(lpending)
    /\ lpc' = AfterCall(lpending')
    /\ UNCHANGED <<lresult, lrun, lturn>>

\* call_tool raised: except Exception, then the same path
LeafToolRaised(call) ==
    /\ lmessages' = Append(lmessages,
           ToolMessage(LeafResultContent("raise"), call.id, call.name))
    /\ lturn' = [lturn EXCEPT !.raised = @ \cup {CallIndex(lturn, lpending)}]
    /\ lrunning' = NoToolCall
    /\ lpending' = Tail(lpending)
    /\ lpc' = AfterCall(lpending')
    /\ UNCHANGED <<lresult, lrun>>

LeafToolFinish ==
    /\ lpc = "tools" /\ lrunning # NoToolCall
    /\ \/ /\ lrunning.name # "no_such_tool"
          /\ \E outcome \in IF lturn.rich THEN RemoteOutcomes \ {"raise"}
                            ELSE {"plain_text"} :
               LeafToolReturned(lrunning, outcome)
       \/ /\ lturn.rich
          /\ LeafToolRaised(lrunning)
    /\ UNCHANGED <<sideVars, queueVars, sessVars, supVars, envVars, lagent, liter,
                   lconn, opened, leafRuns>>

\* the process invokes a leaf sub-agent once more
LeafAgain ==
    /\ lpc = "done" /\ leafRuns > 0
    /\ leafRuns' = leafRuns - 1
    /\ lpc' = "ready"
    /\ lagent' = NONE /\ liter' = 0 /\ lmessages' = <<>>
    /\ lpending' = <<>> /\ lrunning' = NoToolCall
    /\ lresult' = NONE /\ lrun' = NoRun /\ lturn' = NoTurn
    /\ lconn' = "none"
    /\ UNCHANGED <<sideVars, queueVars, sessVars, supVars, envVars, opened>>

Next ==
    \/ SubmitWhileBusy
    \/ StartRequest \/ Clear \/ FinishRequest \/ FinishRaised
    \/ RewriteNode \/ RouterNode \/ NoneNode
    \/ ResumeRewriteNode \/ ResumeHandlerNode
    \/ SupEnter \/ SupInvoke \/ SupLimit
    \/ SupToolUnknown \/ SupToolStart \/ SupToolFinish
    \/ LeafEnter \/ LeafInvoke \/ LeafLimit \/ LeafToolStart \/ LeafToolFinish
    \/ LeafAgain

Spec == Init /\ [][Next]_vars

\* the session when the Ctrl+L binding is also used while a request is in
\* flight
KeyNext == Next \/ ActionClearInFlight

KeySpec == Init /\ [][KeyNext]_vars

(***************************************************************************)
(* eval_queue/gemini_evaluator.py: GeminiEvaluator.evaluate                *)
(***************************************************************************)
\* JSON values the scoring model can put in its reply
ScorerObject(status, justification, improvements, score) ==
    [type |-> "object", status |-> status, justification |-> justification,
     improvements |-> improvements, score |-> score]
ScorerArray == [type |-> "array", status |-> "<missing>", justification |-> Missing,
                improvements |-> Missing, score |-> "<missing>"]

ScorerBodies ==
    { JsonDumps(ScorerObject("pass", <<"", "j">>, <<"", "i">>, "<missing>")),
      JsonDumps(ScorerObject("fail", <<"", "j">>, <<"", "i">>, "<missing>")),
      JsonDumps(ScorerObject("pass", <<"list", "j">>, <<"list", "i">>, "0.5")),
      JsonDumps(ScorerObject("fail", <<"", "j">>, <<"", "i">>, "1.0")),
      JsonDumps(ScorerObject("partial", <<"", "j">>, <<"", "i">>, "<missing>")),
      JsonDumps(ScorerObject("null", <<"", "j">>, <<"", "i">>, "<missing>")),
      JsonDumps(ScorerObject("<missing>", <<"", "j">>, <<"", "i">>, "<missing>")),
      JsonDumps(ScorerObject("pass", Missing, <<"", "i">>, "<missing>")),
      JsonDumps(ScorerArray),
      NotJson }

\* what self.llm.ainvoke gives back: the call raises, or a text, bare or in a
\* markdown fence, the fence closed or not
ScorerOutputs ==
    {[kind |-> "raise", fence |-> "none", body |-> NotJson]} \cup
    {[kind |-> "text", fence |-> "none", body |-> b] : b \in ScorerBodies} \cup
    {[kind |-> "text", fence |-> f,
      body |-> JsonDumps(ScorerObject("pass", <<"", "j">>, <<"", "i">>, "<missing>"))] :
        f \in {"json", "plain", "json_unclosed"}}

\* lines 86-93: the text between the fences; with no closing fence find()
\* gives -1 and the slice loses the last character of the body
Unfence(out) ==
    IF out.fence = "json_unclosed" THEN NotJson ELSE out.body

\* mutant of ScoreOf: every parsed reply counts as passed
ScoreOf_always_one(status) == "1.0"

\* line 104
ScoreOf(status) == IF status = "pass" THEN "1.0" ELSE "0.0"

\* lines 98-101: list fields joined into one string
Joined(field) == IF field[1] = "list" THEN <<"", field[2]>> ELSE field

ParseFallback ==
    [status |-> "error",
     justification |-> <<"Failed to parse evaluation: ", "JSONDecodeError">>,
     improvements |-> <<"", "Could not generate improvements due to parsing error">>,
     score |-> "0.0"]

ErrorFallback(exc) ==
    [status |-> "error",
     justification |-> <<"Evaluation failed: ", exc>>,
     improvements |-> <<"", "Could not evaluate due to error">>,
     score |-> "0.0"]

Returned(evaluation) == [raised |-> FALSE, value |-> evaluation]

\* mutant of evaluate: only the JSON parse error is caught
evaluate_parse_only(out) ==
    IF out.kind = "raise" THEN [raised |-> TRUE, value |-> NoEvaluation]
    ELSE IF JsonLoads(Unfence(out)).raised THEN Returned(ParseFallback)
    ELSE LET evaluation == JsonLoads(Unfence(out)).value
         IN  IF evaluation.type # "object" \/ evaluation.status = "<missing>"
             THEN [raised |-> TRUE, value |-> NoEvaluation]
             ELSE Returned([status |-> evaluation.status,
                            justification |-> Joined(evaluation.justification),
                            improvements |-> Joined(evaluation.improvements),
                            score |-> ScoreOf(evaluation.status)])

\* evaluate(...) when the model call gave out: the dict it returns
evaluate(out) ==
    IF out.kind = "raise" THEN Returned(ErrorFallback("model call raised"))
    ELSE IF JsonLoads(Unfence(out)).raised THEN Returned(ParseFallback)
    ELSE LET evaluation == JsonLoads(Unfence(out)).value
         IN  IF evaluation.type # "object"
             THEN Returned(ErrorFallback("AttributeError"))
             ELSE IF evaluation.status = "<missing>"
             THEN Returned(ErrorFallback("KeyError: 'status'"))
             ELSE Returned([status |-> evaluation.status,
                            justification |-> Joined(evaluation.justification),
                            improvements |-> Joined(evaluation.improvements),
                            score |-> ScoreOf(evaluation.status)])

(***************************************************************************)
(* Functions applied to drawn arguments                                    *)
(***************************************************************************)
\* queries rewrite_query is given
FnQueries == {" q1 ", "q1", " rq ", "rq", "  ", ""}

\* nothing else runs
IdleInit ==
    /\ processing = FALSE /\ pc = "idle" /\ gstate = InitialState
    /\ state = InitialState /\ log = <<>>
    /\ trace = <<>> /\ glog = <<>>
    /\ InitSup /\ InitLeaf /\ lpc = "off" /\ leafRuns = 0
    /\ reqLeft = 0 /\ toolLeft = 0 /\ richLeft = 0
    /\ redis = "up"

\* the same, Redis left open
IdleNoRedis ==
    /\ processing = FALSE /\ pc = "idle" /\ gstate = InitialState
    /\ state = InitialState /\ log = <<>>
    /\ trace = <<>> /\ glog = <<>>
    /\ InitSup /\ InitLeaf /\ lpc = "off" /\ leafRuns = 0
    /\ reqLeft = 0 /\ toolLeft = 0 /\ richLeft = 0

\* arguments of the publish_eval_event calls
PublishAgents == {<<"calendar_agent", "calendar">>, <<"router_agent", "router">>}
PublishResponses == {PyStr("", "r"), PyDict, PyInt}

\* lists publish_eval_event finds
PublishQueues == {<<>>, <<NotJson>>}

\* texts a tool server puts in a content item: JSON as json.dumps writes it,
\* the same JSON indented, a sentence
ToolTexts ==
    {[json |-> TRUE, value |-> "{id: 1}", layout |-> "default"],
     [json |-> TRUE, value |-> "{id: 1}", layout |-> "indented"],
     [json |-> FALSE, value |-> "sent", layout |-> "default"]}
NoText == [json |-> FALSE, value |-> "", layout |-> "none"]

\* content items: a text item, an item of another type
ContentItems ==
    {[has_text |-> TRUE, text |-> t] : t \in ToolTexts}
        \cup {[has_text |-> FALSE, text |-> NoText]}

\* CallToolResult objects: no content, one item, two items
ToolResults ==
    {[content |-> <<>>]}
        \cup {[content |-> <<i>>] : i \in ContentItems}
        \cup {[content |-> <<i, j>>] : i \in ContentItems, j \in ContentItems}

\* Python values: the string with this text, the object a JSON text parses to
StrValue(t) == [type |-> "str", json |-> t.json, value |-> t.value,
                layout |-> t.layout]
ObjValue(v) == [type |-> "object", json |-> FALSE, value |-> v,
                layout |-> "none"]

\* json.dumps(json.loads(text)) of a JSON text
Reserialized(t) == [json |-> TRUE, value |-> t.value, layout |-> "default"]

\* orchestrator.py 211-234: what call_tool returns for a result
CallToolValue(result) ==
    IF result.content # <<>>
    THEN LET content_item == result.content[1] IN
         IF content_item.has_text
         THEN IF content_item.text.json
              THEN ObjValue(content_item.text.value)       \* return json.loads(...)
              ELSE StrValue(content_item.text)
         ELSE ObjValue("content_item.model_dump()")
    ELSE ObjValue("result.model_dump()")

\* mail_agent.py 162-174: result_content of a result
ResultContent(result) ==
    IF result.content # <<>>
    THEN LET content_item == result.content[1] IN
         IF content_item.has_text
         THEN IF content_item.text.json
              THEN StrValue(Reserialized(content_item.text))
              ELSE StrValue(content_item.text)
         ELSE StrValue([json |-> FALSE, value |-> "str(content_item)",
                        layout |-> "default"])
    ELSE StrValue([json |-> FALSE, value |-> "str(result)",
                   layout |-> "default"])

FnInit ==
    /\ IdleNoRedis /\ InitPoolOff /\ InitSvcOff /\ InitEvalOff
    /\ \/ /\ fn \in {[op |-> "rewrite_query", query |-> q, out |-> t,
                       result |-> NONE, done |-> FALSE] :
                         q \in FnQueries, t \in RewriterTexts}
          /\ redis = "up" /\ equeue = <<>>
       \/ /\ fn \in {[op |-> "evaluate", query |-> NONE, out |-> t,
                       result |-> NONE, done |-> FALSE] : t \in ScorerOutputs}
          /\ redis = "up" /\ equeue = <<>>
       \/ /\ fn \in {[op |-> "publish_eval_event",
                       query |-> [agent_name |-> who[1], category |-> who[2],
                                  response |-> r, metadata |-> m, queue |-> q],
                       out |-> NONE, result |-> NONE, done |-> FALSE] :
                         who \in PublishAgents, r \in PublishResponses,
                         m \in MetadataValues, q \in PublishQueues}
          /\ redis \in RedisStates
          /\ equeue = fn.query.queue
       \/ /\ fn \in {[op |-> "call_tool", query |-> r, out |-> NONE,
                       result |-> NONE, done |-> FALSE] : r \in ToolResults}
          /\ redis = "up" /\ equeue = <<>>

\* rewrite_query(user_query) when the model call returned fn.out
FnRewriteQuery ==
    /\ fn.op = "rewrite_query" /\ ~fn.done
    /\ fn' = [fn EXCEPT !.result = RewriteQuery(fn.query, fn.out),
                        !.done = TRUE]
    /\ UNCHANGED <<sessVars, supVars, leafVars, envVars, queueVars, poolVars, svcVars,
                   evalVars>>

\* evaluate(...) when the model call gave fn.out
FnEvaluate ==
    /\ fn.op = "evaluate" /\ ~fn.done
    /\ fn' = [fn EXCEPT !.result = evaluate(fn.out), !.done = TRUE]
    /\ UNCHANGED <<sessVars, supVars, leafVars, envVars, queueVars, poolVars, svcVars,
                   evalVars>>

\* an agent computes its response, calls publish_eval_event and returns the
\* response (calendar_agent.py 155-169); a raise would reach the agent's
\* outer except
FnPublish ==
    /\ fn.op = "publish_eval_event" /\ ~fn.done
    /\ LET a == fn.query
           call == publish_eval_event(equeue, redis, a.agent_name, PyStr("", "q"),
                                      a.response, a.category, a.metadata)
       IN  /\ equeue' = call.queue
           /\ fn' = [fn EXCEPT !.done = TRUE,
                        !.result = [returned |-> call.returned,
                                    raised |-> call.raised,
                                    caller_returns |->
                                        IF call.raised
                                        THEN PyStr("Error in calendar agent: ", "")
                                        ELSE a.response]]
    /\ UNCHANGED <<sessVars, supVars, leafVars, envVars, redis, poolVars, svcVars,
                   evalVars>>

\* one remote result, extracted by the pool's call_tool and by a sub-agent
FnCallTool ==
    /\ fn.op = "call_tool" /\ ~fn.done
    /\ fn' = [fn EXCEPT !.result = [pool |-> CallToolValue(fn.query),
                                    leaf |-> ResultContent(fn.query)],
                        !.done = TRUE]
    /\ UNCHANGED <<sessVars, supVars, leafVars, envVars, queueVars, poolVars, svcVars,
                   evalVars>>

FnNext == FnRewriteQuery \/ FnEvaluate \/ FnPublish \/ FnCallTool

FnSpec == FnInit /\ [][FnNext]_vars

(***************************************************************************)
(* The connection pool: src/agent/mcp_servers/orchestrator.py              *)
(***************************************************************************)
\* what a server does when __aenter__ connects to it: "up" connects and
\* lists its tools, "down" refuses the connection, "up_no_list" connects
\* and fails to list its tools
ServerStatuses == {"up", "down", "up_no_list"}

\* servers a consumer may name in call_tool; the last is not configured
CalledServers == OrchServerSet \cup {"drive"}

PoolInit ==
    /\ IdleInit /\ fn = NoFn /\ InitSvcOff /\ InitEvalOff /\ equeue = <<>>
    /\ opc = "new" /\ oclients = {} /\ ostack = {} /\ oerrors = {}
    /\ onext = 1 /\ oserved = {}
    /\ ostatus \in [OrchServerSet -> ServerStatuses]
    /\ ocallsLeft = MaxPoolCalls

\* __aenter__: the exit stack and the empty error list
OrchEnterStart ==
    /\ opc = "new"
    /\ opc' = "entering"
    /\ ostack' = {} /\ oerrors' = {} /\ onext' = 1
    /\ UNCHANGED <<sessVars, supVars, leafVars, envVars, queueVars, fnVars, svcVars, evalVars,
                   oclients, oserved, ostatus, ocallsLeft>>

\* __aenter__: one try block, connecting one server
OrchConnect ==
    /\ opc = "entering" /\ onext <= Len(OrchServers)
    /\ LET server == OrchServers[onext] IN
       CASE ostatus[server] = "down" ->
              \* enter_async_context raised
              /\ oerrors' = oerrors \cup {server}
              /\ UNCHANGED <<ostack, oclients>>
         [] ostatus[server] = "up" ->
              /\ ostack' = ostack \cup {server}
              /\ oclients' = oclients \cup {server}
              /\ UNCHANGED oerrors
         [] ostatus[server] = "up_no_list" ->
              \* connected and registered, then list_tools raised
              /\ ostack' = ostack \cup {server}
              /\ oclients' = oclients \cup {server}
              /\ oerrors' = oerrors \cup {server}
    /\ onext' = onext + 1
    /\ UNCHANGED <<sessVars, supVars, leafVars, envVars, queueVars, fnVars, svcVars, evalVars,
                   opc, oserved, ostatus, ocallsLeft>>

\* __aenter__: if errors: raise RuntimeError, else return self
OrchEnterEnd ==
    /\ opc = "entering" /\ onext > Len(OrchServers)
    /\ opc' = IF oerrors # {} THEN "failed" ELSE "open"
    /\ UNCHANGED <<sessVars, supVars, leafVars, envVars, queueVars, fnVars, svcVars, evalVars,
                   oclients, ostack, oerrors, onext, oserved, ostatus, ocallsLeft>>

\* call_tool(server, name, params) by a holder of the pool object: ValueError
\* for a server not in self._clients, else the call goes to that client, and
\* reaches the server when the client's connection is open
OrchCallTool ==
    /\ opc \in {"failed", "open", "closed"} /\ ocallsLeft > 0
    /\ ocallsLeft' = ocallsLeft - 1
    /\ \E server \in CalledServers :
         oserved' = IF server \in oclients /\ server \in ostack
                    THEN oserved \cup {server} ELSE oserved
    /\ UNCHANGED <<sessVars, supVars, leafVars, envVars, queueVars, fnVars, svcVars, evalVars,
                   opc, oclients, ostack, oerrors, onext, ostatus>>

\* __aexit__ at the end of the async with block that __aenter__ opened
OrchExit ==
    /\ opc = "open"
    /\ ostack' = {}
    /\ opc' = "closed"
    /\ UNCHANGED <<sessVars, supVars, leafVars, envVars, queueVars, fnVars, svcVars, evalVars,
                   oclients, oerrors, onext, oserved, ostatus, ocallsLeft>>

PoolNext ==
    OrchEnterStart \/ OrchConnect \/ OrchEnterEnd \/ OrchCallTool \/ OrchExit

PoolSpec == PoolInit /\ [][PoolNext]_vars

(***************************************************************************)
(* clients/google.py: the two module-level service handles and their lock. *)
(***************************************************************************)
ServiceOps == {"init_gmail_service", "get_gmail_service",
               "init_calendar_service", "get_calendar_service"}

\* the service an operation hands back
TargetOf(op) ==
    IF op \in {"init_gmail_service", "get_gmail_service"} THEN "gmail" ELSE "calendar"

SvcInit ==
    /\ IdleInit /\ fn = NoFn /\ InitPoolOff /\ InitEvalOff /\ equeue = <<>>
    /\ threads = [t \in Threads |-> [NoThread EXCEPT !.pc = "idle"]]
    /\ InitServices

SvcOthers == <<sessVars, supVars, leafVars, envVars, queueVars, fnVars, poolVars,
              evalVars>>

\* init_*_service returns v: init_calendar_service drops the value of its
\* leading init_gmail_service(force=False) call and goes on to its own check
InitReturns(th, v) ==
    IF th.rest # <<>>
    THEN [th EXCEPT !.svc = Head(th.rest).svc, !.force = Head(th.rest).force,
                    !.rest = Tail(th.rest), !.pc = "check"]
    ELSE [th EXCEPT !.ret = IF th.op = "warmup_services" THEN 0 ELSE v,
                    !.pc = "returned"]

\* the init_*_service calls a call of op makes one after the other, each with
\* its force argument: init_calendar_service begins with
\* init_gmail_service(force=False), warmup_services calls both with its own
InitCalls(op, force) ==
    CASE op = "init_gmail_service" -> <<[svc |-> "gmail", force |-> force]>>
      [] op = "init_calendar_service" ->
            <<[svc |-> "gmail", force |-> FALSE],
              [svc |-> "calendar", force |-> force]>>
      [] op = "warmup_services" ->
            <<[svc |-> "gmail", force |-> force],
              [svc |-> "gmail", force |-> FALSE],
              [svc |-> "calendar", force |-> force]>>
      [] op = "get_gmail_service" -> <<[svc |-> "gmail", force |-> FALSE]>>
      [] op = "get_calendar_service" ->
            <<[svc |-> "gmail", force |-> FALSE],
              [svc |-> "calendar", force |-> FALSE]>>

\* the thread at the start of op(force)
Called(op, force) ==
    IF op \in {"get_gmail_service", "get_calendar_service"}
    THEN [op |-> op, svc |-> TargetOf(op), pc |-> "get", ret |-> 0,
          force |-> FALSE, rest |-> <<>>]
    ELSE [op |-> op, svc |-> Head(InitCalls(op, force)).svc, pc |-> "check",
          ret |-> 0, force |-> Head(InitCalls(op, force)).force,
          rest |-> Tail(InitCalls(op, force))]

\* a thread calls one of the four functions
SvcCall(t) ==
    /\ threads[t].pc = "idle"
    /\ \E op \in ServiceOps :
         threads' = [threads EXCEPT ![t] = Called(op, FALSE)]
    /\ UNCHANGED <<slock, services, builds, entered, SvcOthers>>

\* a thread calls any of the five functions, the init functions and
\* warmup_services with either value of force
SvcCallForce(t) ==
    /\ threads[t].pc = "idle"
    /\ \E op \in ServiceOps \cup {"warmup_services"}, force \in BOOLEAN :
         threads' = [threads EXCEPT ![t] = Called(op, force)]
    /\ UNCHANGED <<slock, services, builds, entered, SvcOthers>>

\* get_*_service: if the handle is None, return init_*_service()
SvcGet(t) ==
    /\ threads[t].pc = "get"
    /\ threads' = [threads EXCEPT ![t] =
          IF services[@.svc] = 0
          THEN [@ EXCEPT !.svc = Head(InitCalls(threads[t].op, FALSE)).svc,
                         !.rest = Tail(InitCalls(threads[t].op, FALSE)),
                         !.pc = "check"]
          ELSE [@ EXCEPT !.pc = "get_return"]]
    /\ UNCHANGED <<slock, services, builds, entered, SvcOthers>>

\* get_*_service: return the handle
SvcGetReturn(t) ==
    /\ threads[t].pc = "get_return"
    /\ threads' = [threads EXCEPT ![t] =
          [threads[t] EXCEPT !.ret = services[threads[t].svc],
                             !.pc = "returned"]]
    /\ UNCHANGED <<slock, services, builds, entered, SvcOthers>>

\* the check outside the lock
SvcCheck(t) ==
    /\ threads[t].pc = "check"
    /\ threads' = [threads EXCEPT ![t] =
          IF services[@.svc] # 0 /\ ~@.force
          THEN InitReturns(@, services[@.svc])
          ELSE [@ EXCEPT !.pc = "acquire"]]
    /\ UNCHANGED <<slock, services, builds, entered, SvcOthers>>

\* with _SERVICE_LOCK: blocks until the lock is free
SvcAcquire(t) ==
    /\ threads[t].pc = "acquire"
    /\ slock = 0
    /\ slock' = t
    /\ entered' = Append(entered, [svc |-> threads[t].svc, by |-> t])
    /\ threads' = [threads EXCEPT ![t].pc = "locked"]
    /\ UNCHANGED <<services, builds, SvcOthers>>

\* mutant of SvcRecheck: no second check under the lock
SvcRecheck_omitted(t) ==
    /\ threads[t].pc = "locked"
    /\ threads' = [threads EXCEPT ![t].pc = "build"]
    /\ UNCHANGED <<slock, services, builds, entered, SvcOthers>>

\* the check repeated under the lock; returning leaves the with block
SvcRecheck(t) ==
    /\ threads[t].pc = "locked"
    /\ IF services[threads[t].svc] # 0 /\ ~threads[t].force
       THEN /\ threads' = [threads EXCEPT ![t] =
                              InitReturns(@, services[@.svc])]
            /\ slock' = 0
       ELSE /\ threads' = [threads EXCEPT ![t].pc = "build"]
            /\ UNCHANGED slock
    /\ UNCHANGED <<services, builds, entered, SvcOthers>>

\* mutant of SvcBuild: an exception under the lock leaves it held
SvcBuild_keeps_lock(t) ==
    /\ threads[t].pc = "build"
    /\ \E ok \in BOOLEAN :
         IF ok
         THEN /\ services' = [services EXCEPT ![threads[t].svc] = Len(builds) + 1]
              /\ builds' = Append(builds, [svc |-> threads[t].svc, by |-> t,
                                           inst |-> Len(builds) + 1])
              /\ threads' = [threads EXCEPT ![t].pc = "built"]
              /\ UNCHANGED slock
         ELSE /\ threads' = [threads EXCEPT ![t].pc = "raised"]
              /\ UNCHANGED <<slock, services, builds>>
    /\ UNCHANGED <<entered, SvcOthers>>

\* credentials and build(...): either the handle is assigned, or an exception
\* (missing client secret, unreadable token file, consent flow) leaves the
\* with block and reaches the caller
SvcBuild(t) ==
    /\ threads[t].pc = "build"
    /\ \E ok \in BOOLEAN :
         IF ok
         THEN /\ services' = [services EXCEPT ![threads[t].svc] = Len(builds) + 1]
              /\ builds' = Append(builds, [svc |-> threads[t].svc, by |-> t,
                                           inst |-> Len(builds) + 1])
              /\ threads' = [threads EXCEPT ![t].pc = "built"]
              /\ UNCHANGED slock
         ELSE /\ threads' = [threads EXCEPT ![t].pc = "raised"]
              /\ slock' = 0
              /\ UNCHANGED <<services, builds>>
    /\ UNCHANGED <<entered, SvcOthers>>

\* return _X_SERVICE from inside the with block
SvcRelease(t) ==
    /\ threads[t].pc = "built"
    /\ threads' = [threads EXCEPT ![t] = InitReturns(@, services[@.svc])]
    /\ slock' = 0
    /\ UNCHANGED <<services, builds, entered, SvcOthers>>

SvcNext ==
    \E t \in Threads :
        \/ SvcCall(t) \/ SvcGet(t) \/ SvcGetReturn(t) \/ SvcCheck(t)
        \/ SvcAcquire(t) \/ SvcRecheck(t) \/ SvcBuild(t) \/ SvcRelease(t)

SvcSpec == SvcInit /\ [][SvcNext]_vars

\* the same threads when force and warmup_services are also used
ForceStep(t) ==
    \/ SvcCallForce(t) \/ SvcGet(t) \/ SvcGetReturn(t) \/ SvcCheck(t)
    \/ SvcAcquire(t) \/ SvcRecheck(t) \/ SvcBuild(t) \/ SvcRelease(t)

ForceNext == \E t \in Threads : ForceStep(t)

ForceSpec == SvcInit /\ [][ForceNext]_vars

(***************************************************************************)
(* eval_queue/consumer.py and the callers of publish_eval_event            *)
(***************************************************************************)
\* time.time() differences in milliseconds, and what a DECIMAL(10, 2) column
\* keeps of one
ExecutionTime == "812.3456"
Decimal2(ms) == IF ms = "812.3456" THEN "812.35" ELSE ms

\* None, NULL
PyNull == <<"None", "">>

\* consumer.py 62-78: the body of the POST
EvalResult(event, evaluation) ==
    [test_name |-> <<event.agent_name, event.category>>,   \* and the clock
     execution_time_ms |-> ExecutionTime,
     metadata |-> <<event.agent_name, event.metadata>>,
     category |-> event.category,
     status |-> evaluation.status,
     score |-> evaluation.score,
     user_input |-> event.query,
     agent_output |-> event.response,
     justification |-> evaluation.justification,
     improvements |-> evaluation.improvements,
     error_message |-> IF evaluation.status # "error" THEN PyNull
                       ELSE evaluation.justification,
     agent_name |-> event.agent_name]

\* eval_server/main.py 61-87: the row the INSERT writes. Its column list has
\* no user_input, agent_output, justification or improvements, which stay
\* NULL; execution_time_ms is a DECIMAL(10, 2) column (database.py 44)
CreateEvalResult(result) ==
    [result EXCEPT !.user_input = PyNull,
                   !.agent_output = PyNull,
                   !.justification = PyNull,
                   !.improvements = PyNull,
                   !.execution_time_ms = Decimal2(@)]

\* eval_server/main.py 93-122: SELECT * ... ORDER BY created_at DESC
RECURSIVE GetEvalResults(_)
GetEvalResults(rows) ==
    IF rows = <<>> THEN <<>>
    ELSE Append(GetEvalResults(Tail(rows)), Head(rows))

\* items another client of the list can leave there: text that is not JSON,
\* a JSON array, an event object whose metadata is null
ForeignItems ==
    { NotJson,
      JsonDumps([type |-> "array"]),
      JsonDumps([EvalEvent("other_agent", PyStr("", "q"), PyStr("", "r"),
                           "other", "{..}") EXCEPT !.metadata = "null"]) }

\* the scorer replies the consumer meets: a pass, a status outside the
\* prompt's two, a reply without justification, a failed model call
ConsumerScorerOutputs ==
    {out \in ScorerOutputs :
        /\ out.fence = "none"
        /\ \/ out.kind = "raise"
           \/ /\ out.body.json
              /\ out.body.value.type = "object"
              /\ out.body.value.score = "<missing>"
              /\ out.body.value.status \in {"pass", "partial"}}

\* outcomes of the POST to the eval server
PostOutcomes == {"200", "500", "timeout", "http_error"}
TransportErrors == {"timeout", "http_error"}

EvalInit ==
    /\ IdleInit /\ fn = NoFn /\ InitPoolOff /\ InitSvcOff
    /\ equeue = <<>>
    /\ cons = [NoCons EXCEPT !.pc = "pop"]
    /\ store = <<>> /\ elog = NoLog
    /\ ebudget = [publishes |-> MaxPublishes, disturbances |-> MaxDisturbances]

EvalOthers == <<sessVars, supVars, leafVars, envVars, fnVars, poolVars, svcVars>>

\* an agent of another process publishes an event
EvPublish ==
    /\ ebudget.publishes > 0
    /\ ebudget' = [ebudget EXCEPT !.publishes = @ - 1]
    /\ \E who \in PublishAgents :
         LET call == publish_eval_event(equeue, redis, who[1], PyStr("", "q"),
                                        PyStr("", "r"), who[2], "{..}")
         IN  /\ equeue' = call.queue
             /\ elog' = IF call.returned
                        THEN [elog EXCEPT !.pushed =
                                 Append(@, JsonDumps(EvalEvent(who[1], PyStr("", "q"),
                                               PyStr("", "r"), who[2], "{..}")))]
                        ELSE elog
    /\ UNCHANGED <<cons, store, redis, EvalOthers>>

\* another client appends an item to the list
EvForeignPush ==
    /\ ebudget.disturbances > 0 /\ redis = "up"
    /\ ebudget' = [ebudget EXCEPT !.disturbances = @ - 1]
    /\ \E item \in ForeignItems :
         /\ equeue' = Rpush(equeue, item)
         /\ elog' = [elog EXCEPT !.pushed = Append(@, item)]
    /\ UNCHANGED <<cons, store, redis, EvalOthers>>

\* Redis becomes unreachable, or reachable again; the list is durable
EvRedisChange ==
    /\ ebudget.disturbances > 0
    /\ ebudget' = [ebudget EXCEPT !.disturbances = @ - 1]
    /\ redis' = IF redis = "up" THEN "down" ELSE "up"
    /\ UNCHANGED <<cons, store, elog, equeue, EvalOthers>>

\* mutant of AfterPop: the head is read but left in the list
AfterPop_keeps(q) == q

\* BLPOP: the list without its head
AfterPop(q) == Tail(q)

\* consume_eval_queue 115-117: blpop raises when Redis is unreachable, gives
\* None after the timeout on an empty list, else removes and gives the head
ConsPop ==
    /\ cons.pc = "pop"
    /\ IF redis # "up"
       THEN /\ cons' = [NoCons EXCEPT !.pc = "backoff"]
            /\ elog' = [elog EXCEPT !.failure = "blpop"]
            /\ UNCHANGED equeue
       ELSE IF equeue = <<>>
       THEN /\ cons' = [cons EXCEPT !.pc = "sleep"]
            /\ UNCHANGED <<equeue, elog>>
       ELSE /\ cons' = [NoCons EXCEPT !.pc = "parse", !.item = Head(equeue)]
            /\ equeue' = AfterPop(equeue)
            /\ elog' = [elog EXCEPT !.popped = Append(@, Head(equeue))]
    /\ UNCHANGED <<store, ebudget, redis, EvalOthers>>

\* mutant of ConsParse: a text that is not JSON ends the loop
ConsParse_stops ==
    /\ cons.pc = "parse"
    /\ IF JsonLoads(cons.item).raised
       THEN /\ cons' = [cons EXCEPT !.pc = "stopped"]
            /\ elog' = [elog EXCEPT !.failure = "not_json",
                                    !.stops = @ \cup {"not_json"}]
       ELSE /\ cons' = [cons EXCEPT !.pc = "score",
                                    !.event = JsonLoads(cons.item).value]
            /\ UNCHANGED elog
    /\ UNCHANGED <<store, ebudget, queueVars, EvalOthers>>

\* consume_eval_queue 119 and 131-133: json.loads; its error is caught by the
\* loop, which waits a second
ConsParse ==
    /\ cons.pc = "parse"
    /\ IF JsonLoads(cons.item).raised
       THEN /\ cons' = [NoCons EXCEPT !.pc = "backoff"]
            /\ elog' = [elog EXCEPT !.failure = "not_json"]
       ELSE /\ cons' = [cons EXCEPT !.pc = "score",
                                    !.event = JsonLoads(cons.item).value]
            /\ UNCHANGED elog
    /\ UNCHANGED <<store, ebudget, queueVars, EvalOthers>>

\* process_eval_event 38-55: the fields of the event, then the scorer; an
\* exception is caught at 99 and the function returns
ConsScore ==
    /\ cons.pc = "score"
    /\ IF cons.event.type # "object"
       THEN /\ cons' = [NoCons EXCEPT !.pc = "sleep"]
            /\ elog' = [elog EXCEPT !.failure = "not_object"]
       ELSE \E out \in ConsumerScorerOutputs :
            /\ elog' = [elog EXCEPT !.scored = Append(@, Len(elog.popped)),
                           !.failure = IF evaluate(out).raised
                                       THEN "scorer" ELSE @]
            /\ cons' = IF evaluate(out).raised
                       THEN [NoCons EXCEPT !.pc = "sleep"]
                       ELSE [cons EXCEPT !.pc = "build",
                                         !.evaluation = evaluate(out).value]
    /\ UNCHANGED <<store, ebudget, queueVars, EvalOthers>>

\* process_eval_event 58-78: the result dict; a missing key of the evaluation
\* or a metadata that is not a mapping raises, caught at 99
ConsBuild ==
    /\ cons.pc = "build"
    /\ IF \/ cons.evaluation.justification = Missing
          \/ cons.evaluation.improvements = Missing
          \/ cons.event.metadata = "null"
       THEN /\ cons' = [NoCons EXCEPT !.pc = "sleep"]
            /\ elog' = [elog EXCEPT !.failure = "build"]
       ELSE /\ cons' = [cons EXCEPT !.pc = "post",
                           !.result = EvalResult(cons.event, cons.evaluation)]
            /\ UNCHANGED elog
    /\ UNCHANGED <<store, ebudget, queueVars, EvalOthers>>

\* process_eval_event 81-97: one POST; every outcome is printed and the
\* function returns
ConsPost ==
    /\ cons.pc = "post"
    /\ \E outcome \in PostOutcomes :
         /\ store' = IF outcome = "200"
                      THEN Append(store, CreateEvalResult(cons.result))
                      ELSE store
         /\ elog' = [elog EXCEPT
                        !.post = [n |-> Len(elog.popped), outcome |-> outcome,
                                  body |-> IF outcome = "200" THEN cons.result
                                           ELSE NoResult],
                        !.failure = IF outcome = "200" THEN @ ELSE "post"]
    /\ cons' = [NoCons EXCEPT !.pc = "sleep"]
    /\ UNCHANGED <<ebudget, queueVars, EvalOthers>>

\* mutant of ConsWake: the loop does not go on after the except clause
ConsWake_not_after_error ==
    /\ cons.pc = "sleep"
    /\ cons' = [cons EXCEPT !.pc = "pop"]
    /\ UNCHANGED <<store, elog, ebudget, queueVars, EvalOthers>>

\* asyncio.sleep(0.1) at 125, asyncio.sleep(1) at 133, then the loop again
ConsWake ==
    /\ cons.pc \in {"sleep", "backoff"}
    /\ cons' = [cons EXCEPT !.pc = "pop"]
    /\ UNCHANGED <<store, elog, ebudget, queueVars, EvalOthers>>

InHand == cons.pc \in {"parse", "score", "build", "post"}

\* KeyboardInterrupt (or the process is killed): the loop ends, and what was
\* popped and not yet stored is gone with it
ConsInterrupt ==
    /\ cons.pc \notin {"off", "stopped"}
    /\ ebudget.disturbances > 0
    /\ cons' = [NoCons EXCEPT !.pc = "stopped"]
    /\ elog' = [elog EXCEPT !.stops = @ \cup {"interrupt"},
                            !.lost = IF InHand THEN Append(@, Len(elog.popped))
                                     ELSE @]
    /\ UNCHANGED <<store, ebudget, queueVars, EvalOthers>>

\* start_eval_consumer is run again
ConsRestart ==
    /\ cons.pc = "stopped"
    /\ ebudget.disturbances > 0
    /\ ebudget' = [ebudget EXCEPT !.disturbances = @ - 1]
    /\ cons' = [NoCons EXCEPT !.pc = "pop"]
    /\ UNCHANGED <<store, elog, queueVars, EvalOthers>>

ConsStep ==
    \/ ConsPop \/ ConsParse \/ ConsScore \/ ConsBuild \/ ConsPost \/ ConsWake

EvalNext ==
    \/ EvPublish \/ EvForeignPush \/ EvRedisChange
    \/ ConsStep
    \/ ConsInterrupt \/ ConsRestart

EvalSpec == EvalInit /\ [][EvalNext]_vars

\* the consumer left running with Redis reachable: events and foreign items
\* arrive, the event loop keeps scheduling the consumer's coroutine, and each
\* of its awaits (BLPOP, scorer, POST, sleep) returns, raises or times out
FairEvalNext == EvPublish \/ EvForeignPush \/ ConsStep

FairEvalSpec == EvalInit /\ [][FairEvalNext]_vars /\ WF_vars(ConsStep)

(***************************************************************************)
(* Properties                                                              *)
(***************************************************************************)
SupLimitMessage == "I processed your request but reached the iteration limit."

\* the supervisor ran in the request in flight and handle_master returned
SupReturned == pc = "END" /\ Len(trace) = 3 /\ trace[3] = "master"
LeafReturned == lpc = "done"

\* outcomes of a run that entered its loop
LoopOutcomes == {"answer", "limit", "model_error"}

\* C1: after every push_history (user turns, delegation entries, tool results,
\* assistant replies) and every clear, a history holds at most 40 messages and
\* equals the most recent min(n, 40) of the n messages appended to it since it
\* was last emptied, in append order.
C1_HistoryCap ==
    /\ Len(state.history) <= HISTORY_CAP
    /\ state.history = LastN(log, HISTORY_CAP)
    /\ Len(gstate.history) <= HISTORY_CAP
    /\ gstate.history = LastN(glog, HISTORY_CAP)

\* more than 40 messages were appended, delegation and tool entries among
\* them, and the oldest were evicted
C1_Witness ==
    /\ Len(glog) >= HISTORY_CAP + 3
    /\ Len(gstate.history) = HISTORY_CAP
    /\ gstate.history[HISTORY_CAP].role = "tool"
    /\ gstate.history[1] # glog[1]

\* C2: a run of the supervisor loop calls the model at most 20 times, a run of
\* a leaf loop at most 10 times; a run whose every model call returned tool
\* calls has made exactly that many calls when it ends, and its output is the
\* limit-reached message.
C2_IterationBound ==
    /\ run.invoked <= MAX_ITERATIONS
    /\ lrun.invoked <= LEAF_MAX_ITERATIONS
    /\ (SupReturned /\ run.outcome \in LoopOutcomes /\ run.allTools) =>
          /\ run.invoked = MAX_ITERATIONS
          /\ run.outcome = "limit"
          /\ gstate.response = SupLimitMessage
    /\ (LeafReturned /\ lrun.outcome \in LoopOutcomes /\ lrun.allTools) =>
          /\ lrun.invoked = LEAF_MAX_ITERATIONS
          /\ lrun.outcome = "limit"
          /\ lresult = LeafLimitMessage(lagent)

\* the supervisor's model asked for a tool on each of its 20 calls
C2_Witness ==
    /\ SupReturned /\ run.allTools
    /\ run.invoked = MAX_ITERATIONS
    /\ gstate.response = SupLimitMessage

\* the asyncio loop runs the supervisor coroutine to its end; every model call
\* and every sub-agent call returns or raises
SupStep ==
    SupEnter \/ SupInvoke \/ SupLimit \/ SupToolUnknown \/ SupToolStart
        \/ SupToolFinish
LiveSpec == Spec /\ WF_vars(SupStep)

\* the response of each way handle_master returns
SupOutcomeOf(r, response) ==
    \/ /\ r.outcome = "answer" /\ ~r.failed
       /\ response = (IF r.answer # "" THEN r.answer
                      ELSE "I processed your request.")
    \/ /\ r.outcome = "limit" /\ ~r.failed
       /\ r.invoked = MAX_ITERATIONS
       /\ response = SupLimitMessage
    \/ /\ r.outcome = "model_error" /\ r.failed
       /\ response = "Error: boom"
    \/ /\ r.outcome = "no_api_key" /\ r.invoked = 0 /\ r.delegated = 0
       /\ response = "Error: GEMINI_API_KEY is not set."
    \/ /\ r.outcome = "setup_error" /\ r.invoked = 0 /\ r.delegated = 0
       /\ response = "Error: boom"

C3_State ==
    /\ SupReturned => SupOutcomeOf(run, gstate.response)
    /\ run.failed => /\ <<run.invoked, run.delegated>> = run.atFailure
                     /\ pc # "master"

Answered(t, rest) == Len(t.calls) - Len(rest)

\* the tool message at the place of the i-th call of turn t
ResultOf(msgs, t, i) == msgs[t.base + 1 + i]

\* a run that has ended did so only after every call of its last turn was
\* answered and the loop went on: to a further model call, or to the limit
WentOn(r, t, rest, limit) ==
    /\ rest = <<>>
    /\ \/ r.invoked > t.iter
       \/ r.outcome = "limit" /\ t.iter = limit

\* C4: in the supervisor loop and in each leaf loop, a tool invocation that
\* raises leaves the run going: the transcript gets the error-shaped tool
\* message {"error": <exception text>} for that call, the later calls of the
\* same model turn are executed, and the run ends only after the loop went on
\* to the next model call or to the iteration limit.
C4_RaiseContained ==
    /\ \A i \in turn.raised :
          /\ i <= Answered(turn, pending)
          /\ ResultOf(messages, turn, i) =
                ToolMessage(RaisedError, turn.calls[i].id, turn.calls[i].name)
    /\ (turn.raised # {} /\ pc # "master") =>
          /\ run.outcome \in LoopOutcomes
          /\ WentOn(run, turn, pending, MAX_ITERATIONS)
    /\ \A i \in lturn.raised :
          /\ i <= Answered(lturn, lpending)
          /\ ResultOf(lmessages, lturn, i) =
                ToolMessage(RaisedError, lturn.calls[i].id, lturn.calls[i].name)
    /\ (lturn.raised # {} /\ lpc = "done") =>
          /\ lrun.outcome \in LoopOutcomes
          /\ WentOn(lrun, lturn, lpending, LEAF_MAX_ITERATIONS)

\* the first of two sub-agent calls raised, the second returned, and the
\* supervisor's model was called again
C4_Witness ==
    /\ SupReturned
    /\ turn.raised = {1} /\ Len(turn.calls) = 2
    /\ ResultOf(messages, turn, 2).content = "done"
    /\ run.invoked = turn.iter + 1

\* names of the registered sub-agent tools
RegisteredNames == {SUB_AGENT_TOOLS[i] : i \in 1..Len(SUB_AGENT_TOOLS)}

\* tool messages of the run in flight that answer a call to a registered name
RegisteredResults ==
    {i \in (run.base0 + 1)..Len(messages) :
        messages[i].type = "tool" /\ messages[i].name \in RegisteredNames}

\* C5: a tool call of the supervisor's model whose name is no registered
\* sub-agent invokes no sub-agent (sub-agents are invoked once per call to a
\* registered name), its tool message is {"error": "Unknown tool: <name>"},
\* and the run ends only after the loop went on.
C5_UnknownTool ==
    /\ \A i \in 1..Answered(turn, pending) :
          turn.calls[i].name \notin RegisteredNames =>
             ResultOf(messages, turn, i) =
                ToolMessage(UnknownToolError(turn.calls[i].name),
                            turn.calls[i].id, turn.calls[i].name)
    /\ run.delegated = Cardinality(RegisteredResults)
                         + (IF running # NoToolCall THEN 1 ELSE 0)
    /\ running # NoToolCall => running.name \in RegisteredNames
    /\ ((\E i \in 1..Len(turn.calls) : turn.calls[i].name \notin RegisteredNames)
          /\ pc # "master") =>
          WentOn(run, turn, pending, MAX_ITERATIONS)

\* the model asked for drive_agent_tool then expense_agent_tool: one sub-agent
\* ran, and the model was called again
C5_Witness ==
    /\ SupReturned /\ run.outcome = "answer"
    /\ Len(turn.calls) = 2
    /\ turn.calls[1].name = "drive_agent_tool"
    /\ turn.calls[2].name = "expense_agent_tool"
    /\ run.delegated = 1

\* the transcript of a loop around its last model turn t with tool calls
TurnShape(msgs, t, rest, current, inTools) ==
    t.calls # <<>> =>
        LET k == Len(t.calls)
            p == Answered(t, rest)
        IN /\ Len(msgs) = t.base + 1 + p
           /\ msgs[t.base + 1] = AIMessage("", t.calls)
           /\ \A i \in 1..p :
                 /\ ResultOf(msgs, t, i).type = "tool"
                 /\ ResultOf(msgs, t, i).tool_call_id = t.calls[i].id
                 /\ ResultOf(msgs, t, i).name = t.calls[i].name
           /\ rest = SubSeq(t.calls, p + 1, k)
           /\ current # NoToolCall => current = t.calls[p + 1]
           /\ ~inTools => p = k

\* C6: a model turn with k tool calls extends the transcript by that turn and
\* then by one tool message per call, in the order of the calls; the call
\* being executed is the first one not yet answered; the i-th tool message
\* carries the id and the name of the i-th call; once the turn is over there
\* are exactly k of them.
C6_TurnOrder ==
    /\ TurnShape(messages, turn, pending, running, spc = "tools")
    /\ TurnShape(lmessages, lturn, lpending, lrunning, lpc = "tools")

\* a turn of two calls, both answered, in the supervisor
C6_Witness ==
    /\ Len(turn.calls) = 2 /\ pending = <<>> /\ spc = "loop"
    /\ ResultOf(messages, turn, 1).tool_call_id = <<turn.iter, 1>>
    /\ ResultOf(messages, turn, 2).tool_call_id = <<turn.iter, 2>>

\* the graph run of the request in flight has left the router node
RouterReturned ==
    /\ processing /\ Len(trace) >= 2 /\ trace[2] = "router"
    /\ ~(Len(trace) = 2 /\ pc = "raised")
\* the branch the conditional edge chose
Branch == IF Len(trace) = 2 THEN pc ELSE trace[3]
Branches == {"master", "resume", "none"}

\* C7 (as stated): every request runs query_rewriter, then router, then
\* exactly one of the branches master, resume, none, and ends there.
C7_FixedOrder ==
    (pc = "idle" /\ trace # <<>>) =>
        /\ Len(trace) >= 3
        /\ trace[1] = "query_rewriter" /\ trace[2] = "router"
        /\ trace[3] \in Branches
        /\ \A i \in 4..Len(trace) : trace[i] \notin Branches

\* the categories of the specification's fixed category set
FixedCategorySet ==
    {"mail", "calendar", "expense_tracker", "expense", "drive",
     "resume_preparation", "none"}

\* C8 (as stated): the category the router returns is one of the fixed
\* category set, "none" standing for every other classifier output.
C8_RouterClosure ==
    RouterReturned => gstate.category_to_be_served \in FixedCategorySet

C10_NoneIsTerminal ==
    (RouterReturned /\ gstate.category_to_be_served = "none") =>
        /\ Branch = "none"
        /\ \A i \in 1..Len(trace) : trace[i] \in {"query_rewriter", "router", "none"}
        /\ run = NoRun /\ spc = "off"
        /\ pc = "END" => /\ gstate.response = NoCategoryResponse
                         /\ trace = <<"query_rewriter", "router", "none">>

\* the second request of a session was routed to "none" and answered
C10_Witness ==
    /\ RouterReturned /\ gstate.category_to_be_served = "none"
    /\ pc = "END" /\ gstate.response = NoCategoryResponse
    /\ Len(gstate.history) >= 3

\* number of rewriter passes of the request in flight
RewriterPasses ==
    Cardinality({i \in 1..Len(trace) :
                    trace[i] \in {"query_rewriter", "resume.query_rewriter"}})

\* C11: a request routed to the resume branch never enters the supervisor; its
\* query passes the subgraph's own rewriter before the resume handler, so the
\* rewriter has run exactly twice when the handler runs, and exactly once in
\* a request that ran the supervisor or the none branch.
C11_ResumeTwoPasses ==
    RouterReturned =>
        /\ Branch = "resume" =>
              /\ run = NoRun /\ spc = "off"
              /\ \A i \in 1..Len(trace) : trace[i] # "master"
              /\ Len(trace) >= 3 =>
                    /\ Len(trace) >= 4
                    /\ trace[3] = "resume"
                    /\ trace[4] = "resume.query_rewriter"
                    /\ RewriterPasses = 2
              /\ pc \in {"resume_handler", "END"} => Len(trace) >= 4
              /\ \A i \in 1..Len(trace) :
                    trace[i] = "resume.resume_handler" => i = 5
        /\ (Branch \in {"master", "none"} /\ pc = "END") => RewriterPasses = 1

\* the resume handler answered a query the second rewriter pass had rewritten
C11_Witness ==
    /\ RouterReturned /\ pc = "END"
    /\ trace = <<"query_rewriter", "router", "resume",
                 "resume.query_rewriter", "resume.resume_handler">>
    /\ gstate.response = "resume text"

\* the rewriter's model output gives no usable rewritten_query: the text
\* holds no JSON, or the JSON is no object, is {}, has no rewritten_query
\* field, or that field is no string or is blank
NoUsableRewrite(text) ==
    \/ text.kind \in {"garbage", "embedded_bad"}
    \/ /\ text.kind \in {"json", "embedded"}
       /\ \/ text.value.type # "object"
          \/ text.value.keys = {}
          \/ "rewritten_query" \notin text.value.keys
          \/ text.value.rewritten_query \in {NONE, JsonNumberValue, "", "  "}

\* C12: when the rewriter's model output is not parseable JSON, is {}, lacks
\* rewritten_query, or has a non-string or blank rewritten_query,
\* rewrite_query returns the query stripped, for every query.
C12_RewriteFallback ==
    (fn.op = "rewrite_query" /\ fn.done /\ NoUsableRewrite(fn.out)) =>
        fn.result = Strip(fn.query)

\* a padded query and a model output that is no JSON
C12_Witness ==
    /\ fn.op = "rewrite_query" /\ fn.done
    /\ fn.query = " q1 " /\ fn.out = Text("garbage", PyNone)
    /\ fn.result = "q1"

\* C13 (as stated): whatever the rewriter's model call does, the request is
\* at the router once the rewrite node has run, its standalone query being
\* the rewritten query or else the original one.
C13_RewriteNeverBlocks ==
    (processing /\ trace = <<"query_rewriter">>) =>
        /\ pc = "router"
        /\ gstate.query_to_be_served \in {state.query_to_be_served, "rq"}

\* entries the graph run of the request in flight has appended
BranchEntries == SubSeq(glog, Len(log) + 1, Len(glog))

\* an entry written by the supervisor for a tool call
IsBranchEntry(m) == m.role = "tool" \/ m.function_call # NoCall

\* the reply process_query appends for a response
ReplyFor(response) ==
    Message("assistant",
            IF Strip(response) = "" THEN "I processed your request."
            ELSE Strip(response), NONE)

C14_InFlight ==
    processing =>
        /\ log # <<>>
        /\ log[Len(log)] = Message("user", state.query_to_be_served, NONE)
        /\ Len(glog) >= Len(log)
        /\ SubSeq(glog, 1, Len(log)) = log
        /\ trace = <<>> => glog = log
        /\ \A i \in 1..Len(BranchEntries) : IsBranchEntry(BranchEntries[i])

C14_Steps ==
    /\ (~processing /\ processing') =>
          /\ trace' = <<>> /\ pc' = "query_rewriter"
          /\ log' = Append(log, Message("user", state'.query_to_be_served, NONE))
    /\ (pc = "END" /\ pc' # pc) =>
          /\ pc' = "idle"
          /\ log' = Append(glog, ReplyFor(gstate.response))
          /\ state'.history = LastN(log', HISTORY_CAP)
    /\ (processing /\ ~processing') => pc \in {"END", "raised"}

\* C14: the user message is appended before the first graph node runs; the
\* entries of the branch follow it; when the graph run returns, whichever
\* branch ran, the reply is appended after them.
C14_HistoryOrder == []C14_InFlight /\ [][C14_Steps]_vars

\* a request the supervisor served with one delegation has been written back:
\* user message, delegation entry, tool entry, reply
C14_Witness ==
    /\ ~processing /\ Len(trace) = 3 /\ trace[3] = "master"
    /\ Len(log) = 4
    /\ log[1].role = "user" /\ log[2].function_call # NoCall
    /\ log[3].role = "tool" /\ log[4] = Message("assistant", "ans", NONE)

IsToolMessage(m) == m.type = "tool"

\* tool messages of the supervisor run, in order
ToolMessages ==
    SelectSeq(SubSeq(messages, run.base0 + 1, Len(messages)), IsToolMessage)

\* the tool calls of the model turns of a transcript, in order
RECURSIVE AllCalls(_)
AllCalls(msgs) ==
    IF msgs = <<>> THEN <<>>
    ELSE Head(msgs).tool_calls \o AllCalls(Tail(msgs))

RunCalls == AllCalls(SubSeq(messages, run.base0 + 1, Len(messages)))

\* the supervisor's loop runs or has just returned
SupInLoop ==
    /\ processing /\ Len(trace) = 3 /\ trace[3] = "master"
    /\ run.base0 > 0

\* C15: each tool call the supervisor executes, whether its sub-agent
\* returned, raised or does not exist, appends exactly two history entries:
\* an assistant entry with the call's name, arguments and id, then a tool
\* entry named after the call with the result content and the same id.
C15_TwoEntriesPerCall ==
    SupInLoop =>
        /\ Len(BranchEntries) =
              2 * Len(ToolMessages) + (IF running # NoToolCall THEN 1 ELSE 0)
        /\ \A j \in 1..Len(ToolMessages) :
              LET d == BranchEntries[2 * j - 1]
                  t == BranchEntries[2 * j]
                  c == RunCalls[j]
              IN /\ d.role = "assistant"
                 /\ d.function_call = [name |-> c.name, args |-> c.args]
                 /\ d.tool_call_id = c.id
                 /\ t.role = "tool" /\ t.name = c.name
                 /\ t.content = ToolMessages[j].content
                 /\ t.tool_call_id = c.id
        /\ running # NoToolCall =>
              LET d == BranchEntries[Len(BranchEntries)] IN
              /\ d.role = "assistant"
              /\ d.function_call = [name |-> running.name, args |-> running.args]
              /\ d.tool_call_id = running.id

\* one turn asked for an unregistered name, then for a sub-agent that raised
C15_Witness ==
    /\ SupInLoop /\ Len(BranchEntries) = 4
    /\ turn.calls[1].name = "drive_agent_tool"
    /\ turn.raised = {2}
    /\ BranchEntries[2].content = UnknownToolError("drive_agent_tool")
    /\ BranchEntries[4].content = RaisedError

\* texts of the vocabulary that contain the exception's text "boom"
ContainsExceptionText(text) ==
    text \in {"Error: boom", RaisedError}
               \cup {LeafErrorMessage(a) : a \in LeafAgents}

\* C16 (as stated): the response a branch hands back for a failure is a short
\* apology and never contains the text of the exception.
C16_ApologyOnly ==
    pc = "END" => ~ContainsExceptionText(gstate.response)

\* servers the pool cannot use
FailedServers == {srv \in OrchServerSet : ostatus[srv] # "up"}

\* opening attempts every server, fails exactly when one cannot be used, and
\* lists exactly those
OpenAttemptsAll ==
    /\ opc \in {"failed", "open"} => onext = Len(OrchServers) + 1
    /\ opc = "failed" => (oerrors = FailedServers /\ FailedServers # {})
    /\ opc \in {"open", "closed"} => FailedServers = {}

\* C17 (as stated): with some server unreachable, opening the pool attempts
\* every server, fails naming exactly the unreachable ones, and afterwards no
\* tool call through that pool object reaches a server.
C17_PoolAllOrNothing ==
    /\ OpenAttemptsAll
    /\ opc = "failed" => oserved = {}

\* C18 (as stated): when opening the pool failed, no connection opened during
\* the attempt is still open.
C18_ClosedOnFailedOpen ==
    opc = "failed" => ostack = {}

\* C19 (as stated): over all the sub-agent invocations of a process, at most
\* one connection is ever opened to each remote tool server.
C19_OneConnectionPerServer ==
    \A a \in LeafAgents : opened[a] <= 1

BuildsOf(s) == SelectSeq(builds, LAMBDA b : b.svc = s)
EnteredFor(s) == SelectSeq(entered, LAMBDA e : e.svc = s)

\* C20: under any interleaving of init_gmail_service(force=False),
\* get_gmail_service, init_calendar_service and get_calendar_service calls,
\* each service is built at most once; every caller that returns hands back
\* that one instance; and the builder is the first thread that entered the
\* lock for that service and whose construction did not raise.
C20_BuiltOnce ==
    /\ \A s \in ServiceNames :
         /\ Len(BuildsOf(s)) <= 1
         /\ Len(BuildsOf(s)) = 1 =>
              /\ services[s] = BuildsOf(s)[1].inst
              /\ \E i \in 1 .. Len(EnteredFor(s)) :
                   /\ EnteredFor(s)[i].by = BuildsOf(s)[1].by
                   /\ \A j \in 1 .. (i - 1) :
                        LET u == EnteredFor(s)[j].by
                        IN  threads[u].pc = "raised" /\ threads[u].svc = s
    /\ \A t \in Threads :
         threads[t].pc = "returned" =>
            /\ Len(BuildsOf(TargetOf(threads[t].op))) = 1
            /\ threads[t].ret = BuildsOf(TargetOf(threads[t].op))[1].inst

\* two threads both passed the unlocked check of each service while it was
\* unset, entered the lock one after the other, and both returned
C20_Witness ==
    /\ \A s \in ServiceNames : Len(EnteredFor(s)) = 2 /\ Len(BuildsOf(s)) = 1
    /\ threads[1].pc = "returned" /\ threads[2].pc = "returned"
    /\ threads[1].ret = threads[2].ret

PublishedEvent(a) ==
    JsonDumps(EvalEvent(a.agent_name, PyStr("", "q"), a.response, a.category,
                        a.metadata))

\* C21: publish_eval_event never raises; when the metadata cannot be
\* serialized or Redis is unreachable it returns False and leaves the list as
\* it was, otherwise it appends exactly one event and returns True; either
\* way the calling agent returns the response it had computed.
C21_PublishNeverRaises ==
    (fn.op = "publish_eval_event" /\ fn.done) =>
        LET a == fn.query
            failed == a.metadata = "unserializable" \/ redis # "up"
        IN  /\ ~fn.result.raised
            /\ fn.result.returned = ~failed
            /\ failed => equeue = a.queue
            /\ ~failed => equeue = Append(a.queue, PublishedEvent(a))
            /\ fn.result.caller_returns = a.response

\* a call with metadata json.dumps rejects, on a list that held an item
C21_Witness ==
    /\ fn.op = "publish_eval_event" /\ fn.done
    /\ fn.query.metadata = "unserializable" /\ redis = "up"
    /\ fn.result.returned = FALSE
    /\ equeue = <<NotJson>>

\* C22 (as stated): the result the consumer builds for an event has the
\* event's category and a status among pass, fail and error.
C22_RoundTrip ==
    cons.pc = "post" =>
        /\ cons.result.category = cons.event.category
        /\ cons.event = JsonLoads(elog.popped[Len(elog.popped)]).value
        /\ cons.result.status \in {"pass", "fail", "error"}

\* C23: in every dict evaluate returns the score is 1.0 when the status is
\* "pass" and 0.0 otherwise.
C23_ScoreIffPass ==
    (fn.op = "evaluate" /\ fn.done) =>
        /\ fn.result.value.score \in {"1.0", "0.0"}
        /\ fn.result.value.score = "1.0" <=> fn.result.value.status = "pass"

\* a reply that carries its own score
C23_Witness ==
    /\ fn.op = "evaluate" /\ fn.done
    /\ fn.out.body.json /\ fn.out.body.value.score = "0.5"
    /\ fn.result.value.score = "1.0"

UnusableScorerOutput(out) ==
    \/ out.kind = "raise"
    \/ JsonLoads(Unfence(out)).raised
    \/ JsonLoads(Unfence(out)).value.type # "object"
    \/ JsonLoads(Unfence(out)).value.status = "<missing>"

C25_OnlyInterruptStops ==
    /\ elog.stops \subseteq {"interrupt"}
    /\ cons.pc = "stopped" => "interrupt" \in elog.stops

C25_GoesOn ==
    /\ (ConsStep /\ InHand /\ cons'.pc \notin {"parse", "score", "build", "post"})
          => cons'.pc \in {"sleep", "backoff"}
    /\ (ConsStep /\ cons.pc \in {"sleep", "backoff"}) => cons'.pc = "pop"

\* C25: the consumer loop stops only on an interrupt; after an item that is
\* not JSON or not an object, a failure while the result is built, or a
\* failed POST, the loop sleeps and then pops again.
C25_LoopSurvives == []C25_OnlyInterruptStops /\ [][C25_GoesOn]_vars

\* an item that is not JSON was popped, and the loop is handling the next one
C25_Witness ==
    /\ elog.failure = "not_json"
    /\ Len(elog.popped) = 2 /\ ~elog.popped[1].json
    /\ cons.pc = "score"

\* C26 (as stated): after a POST that failed with a transport error the
\* consumer does not pop the next event before it has sent that POST again.
C26_RetryBeforeNext ==
    elog.post.outcome \in TransportErrors => Len(elog.popped) = elog.post.n

C27_InOrder == elog.pushed = elog.popped \o equeue

C27_OneAtATime == Len(elog'.popped) > Len(elog.popped) => ~InHand

\* C27: items leave the list in the order they were pushed, whoever pushed
\* them, and the consumer pops an item only when it has finished with the
\* one before.
C27_Fifo == []C27_InOrder /\ [][C27_OneAtATime]_vars

\* two different events were published; the first was scored and the second
\* is being scored
C27_Witness ==
    /\ Len(elog.popped) = 2 /\ elog.popped[1] # elog.popped[2]
    /\ elog.popped[1].json /\ elog.popped[2].json
    /\ elog.popped[1].value.type = "object" /\ elog.popped[2].value.type = "object"
    /\ elog.scored = <<1, 2>>

\* C28: an item popped is gone from the list for good; each popped item is
\* handed to the scorer at most once; an item the consumer held when it was
\* interrupted is neither handled again nor stored.
C28_AtMostOnce ==
    /\ Len(elog.popped) + Len(equeue) = Len(elog.pushed)
    /\ \A i, j \in 1 .. Len(elog.scored) : i < j => elog.scored[i] < elog.scored[j]
    /\ \A k \in 1 .. Len(elog.lost) :
          /\ InHand => elog.lost[k] < Len(elog.popped)
          /\ elog.post.n # elog.lost[k]

\* the consumer was interrupted while it held an event, was started again
\* and is scoring the next event
C28_Witness ==
    /\ elog.lost = <<1>>
    /\ Len(elog.popped) = 2 /\ cons.pc = "build"
    /\ elog.scored = <<2>>

\* the list gained exactly one event, carrying this query and response
PublishedOne(category, query, response) ==
    /\ Len(equeue') = Len(equeue) + 1
    /\ SubSeq(equeue', 1, Len(equeue)) = equeue
    /\ LET event == JsonLoads(equeue'[Len(equeue')]).value
       IN  /\ event.category = category
           /\ event.query = PyStr("", query)
           /\ event.response = PyStr("", response)

C29_Returns ==
    /\ (~LeafReturned /\ LeafReturned' /\ redis = "up")
          => PublishedOne(lagent', LeafQuery, lresult')
    /\ (~SupReturned /\ SupReturned' /\ redis = "up")
          => PublishedOne("master", gstate.query_to_be_served, gstate'.response)

\* C29 (as stated): whenever the supervisor or a mail, calendar or expense
\* sub-agent returns its final response (final answer, iteration limit or
\* error), exactly one eval event with that query and response is published.
C29_EveryResponseScored == [][C29_Returns]_vars

C30_Marker == processing = (pc # "idle")

C30_Steps ==
    /\ (reqLeft' < reqLeft /\ processing) =>
          UNCHANGED <<state, log, gstate, glog, pc, trace, processing, supVars>>
    /\ (reqLeft' < reqLeft /\ ~processing) => (processing' /\ pc' = "query_rewriter")
    /\ (pc \in {"END", "raised"} /\ pc' # pc) => (pc' = "idle" /\ ~processing')

\* C30: the in-flight marker is set exactly while a request is in the graph;
\* a message or command submitted meanwhile changes neither the history nor
\* the session state nor the graph run; the marker is cleared when the
\* request ends, by success or by exception, and the next message is accepted.
C30_OneAtATime == []C30_Marker /\ [][C30_Steps]_vars

\* the first request ended with an exception and the next message is in the
\* graph, where a further submission has been rejected
C30_Witness ==
    /\ processing /\ pc = "router" /\ reqLeft = 0
    /\ Len(log) = 2 /\ log[1].role = "user" /\ log[2].role = "user"

(***************************************************************************)
(* C31: for a remote result whose first content item is textual, the pool's *)
(* call_tool and the sub-agents' extraction both hand back a string: the    *)
(* JSON re-serialization of the text when it parses as JSON, the text       *)
(* itself otherwise; so the two give the same value.                        *)
(***************************************************************************)
TextBack(result) ==
    LET text == result.content[1].text IN
    IF text.json THEN StrValue(Reserialized(text)) ELSE StrValue(text)

FirstItemTextual(result) ==
    result.content # <<>> /\ result.content[1].has_text

C31_TextBack ==
    (fn.op = "call_tool" /\ fn.done /\ FirstItemTextual(fn.query)) =>
        /\ fn.result.leaf = TextBack(fn.query)
        /\ fn.result.pool = TextBack(fn.query)
        /\ fn.result.pool = fn.result.leaf

\* the sub-agents' half alone
C31_LeafTextBack ==
    (fn.op = "call_tool" /\ fn.done /\ FirstItemTextual(fn.query)) =>
        fn.result.leaf = TextBack(fn.query)

(***************************************************************************)
(* C32: after a successful POST /evals, a later GET /evals returns a record *)
(* whose test_name, category, status, score, justification, improvements,   *)
(* execution_time_ms and metadata equal those of the posted body.           *)
(***************************************************************************)
SameEvalResult(row, body) ==
    /\ row.test_name = body.test_name
    /\ row.category = body.category
    /\ row.status = body.status
    /\ row.score = body.score
    /\ row.justification = body.justification
    /\ row.improvements = body.improvements
    /\ row.execution_time_ms = body.execution_time_ms
    /\ row.metadata = body.metadata

C32_WholeResultPersisted ==
    elog.post.outcome = "200" =>
        \E i \in 1..Len(GetEvalResults(store)) :
            SameEvalResult(GetEvalResults(store)[i], elog.post.body)

\* the columns the INSERT does write, execution_time_ms aside
C32_InsertedColumns ==
    elog.post.outcome = "200" =>
        LET row == GetEvalResults(store)[1]
            body == elog.post.body
        IN  /\ row.test_name = body.test_name
            /\ row.category = body.category
            /\ row.status = body.status
            /\ row.score = body.score
            /\ row.error_message = body.error_message
            /\ row.metadata = body.metadata

(***************************************************************************)
(* C33: in every reachable session history, each tool-result entry is       *)
(* immediately preceded by the assistant delegation entry that carries the  *)
(* same tool_call_id and sub-agent name; no tool-result entry is present    *)
(* without its request, also after the 40-entry cap evicted entries from    *)
(* the head.                                                                *)
(***************************************************************************)
RequestOf(history, i) ==
    /\ i > 1
    /\ history[i - 1].role = "assistant"
    /\ history[i - 1].function_call # NoCall
    /\ history[i - 1].function_call.name = history[i].name
    /\ history[i - 1].tool_call_id = history[i].tool_call_id

ResultsFollowRequests(history, from) ==
    \A i \in from..Len(history) :
        history[i].role = "tool" => RequestOf(history, i)

C33_ResultAfterRequest ==
    /\ ResultsFollowRequests(state.history, 1)
    /\ ResultsFollowRequests(gstate.history, 1)

\* the same for every entry but the oldest one
C33_BelowTheHead ==
    /\ ResultsFollowRequests(state.history, 2)
    /\ ResultsFollowRequests(gstate.history, 2)

(***************************************************************************)
(* C34: after a clear (the /clear command or the Ctrl+L action), no message *)
(* appended before the clear is present in the session history at any later *)
(* time, also when the clear is issued while a request is in flight and     *)
(* that request then completes and writes its state back to the session.    *)
(* While a request is in flight the session history is empty only after a   *)
(* clear, and the first message of glog was appended before it.             *)
(***************************************************************************)
ClearedInFlight == processing /\ state.history = <<>>

C34_Steps ==
    ClearedInFlight =>
        \A i \in 1..Len(state'.history) : state'.history[i] # glog[1]

C34_IdleClear ==
    [][(~processing /\ state.history # <<>> /\ state'.history = <<>>) =>
          (state' = InitialState /\ ~processing')]_vars

(***************************************************************************)
(* C35: every connection a leaf sub-agent opens to its remote tool server   *)
(* is closed by the time the sub-agent returns, on every exit path: final   *)
(* answer, iteration limit, tool-listing failure, model-call failure.       *)
(***************************************************************************)
C35_ClosedOnReturn ==
    /\ LeafReturned => lconn # "open"
    /\ (LeafReturned /\ lrun.outcome \in LoopOutcomes) => lconn = "closed"
    /\ (lpc \in {"loop", "tools"}) => lconn = "open"

\* the model call failed after a turn of tool calls, and the sub-agent has
\* returned with its connection closed
C35_Witness ==
    /\ LeafReturned /\ lrun.outcome = "model_error"
    /\ lrun.delegated > 0 /\ opened[lagent] > 0
    /\ lconn = "closed"

(***************************************************************************)
(* C36: a leaf sub-agent never raises to the supervisor once its client is  *)
(* constructed: a missing credential, a connection failure, a tool-listing  *)
(* failure or a model-call failure each end the sub-agent with an error     *)
(* string as its return value, and with a missing credential no connection  *)
(* is opened and no model call is made.                                     *)
(***************************************************************************)
LeafFailures == {"no_credential", "setup_error", "model_error"}

CredentialErrors ==
    {"Error: GEMINI_MODEL is not set.", "Error: GEMINI_API_KEY is not set."}

C36_ErrorString ==
    /\ lpc # "raised"
    /\ lrun.outcome \in LeafFailures => LeafReturned
    /\ (LeafReturned /\ lrun.outcome \in {"setup_error", "model_error"}) =>
          lresult = LeafErrorMessage(lagent)
    /\ (LeafReturned /\ lrun.outcome = "no_credential") =>
          /\ lresult \in CredentialErrors
          /\ lconn = "none"
          /\ lrun.invoked = 0

\* the tool listing (or the connection) failed and the sub-agent returned
\* its error string without a model call
C36_Witness ==
    /\ LeafReturned /\ lrun.outcome = "setup_error"
    /\ lresult = "Error in calendar agent: boom"
    /\ lrun.invoked = 0

(***************************************************************************)
(* C37: when the graph raises during a request, the session history keeps   *)
(* the user message appended for that request and gains no assistant entry  *)
(* for it, the in-flight marker is cleared, and the next request is         *)
(* processed normally with that user message still in history.              *)
(***************************************************************************)
UserMessageOfRequest == Message("user", state.query_to_be_served, NONE)

C37_Raised ==
    pc = "raised" =>
        /\ processing
        /\ state.history # <<>>
        /\ state.history[Len(state.history)] = UserMessageOfRequest

C37_Steps ==
    /\ (pc = "raised" /\ pc' # pc) =>
          /\ pc' = "idle" /\ ~processing'
          /\ state'.history = state.history
          /\ log' = log
    /\ (~processing /\ processing') =>
          /\ pc' = "query_rewriter"
          /\ log' = Append(log, Message("user", state'.query_to_be_served, NONE))
          /\ state'.history = LastN(log', HISTORY_CAP)
          /\ gstate' = state'

C37_RaiseKeepsUserMessage == []C37_Raised /\ [][C37_Steps]_vars

\* the first request raised in the graph; the second has been answered, and
\* the history holds both user messages and the one reply
C37_Witness ==
    /\ ~processing /\ reqLeft = 0
    /\ Len(state.history) = 3
    /\ state.history[1].role = "user" /\ state.history[2].role = "user"
    /\ state.history[3].role = "assistant"

(***************************************************************************)
(* C38: no interleaving of concurrent init_gmail_service,                   *)
(* init_calendar_service, get_*_service and warmup_services calls, with or  *)
(* without force, deadlocks: the non-reentrant service lock is never        *)
(* requested by a thread that already holds it, and it is released on every *)
(* exit path, also when credential loading or service construction raises.  *)
(***************************************************************************)
InsideWith == {"locked", "build", "built"}
CallEnded == {"returned", "raised"}

\* thread t can take a step, or waits for the lock while its holder can
CanGoOn(t) ==
    \/ ENABLED ForceStep(t)
    \/ /\ threads[t].pc = "acquire"
       /\ slock \in Threads \ {t}
       /\ ENABLED ForceStep(slock)

C38_NoDeadlock ==
    /\ slock \in {0} \cup Threads
    /\ \A t \in Threads :
         /\ threads[t].pc = "acquire" => slock # t
         /\ (slock = t) <=> (threads[t].pc \in InsideWith)
         /\ threads[t].pc \notin CallEnded => CanGoOn(t)

\* a forced construction raised under the lock, and the thread that waited
\* in warmup_services now holds the lock
C38_Witness ==
    /\ threads[1].pc = "raised" /\ threads[1].force
    /\ threads[2].op = "warmup_services" /\ slock = 2
    /\ Len(entered) >= 2 /\ entered[1].by = 1

(***************************************************************************)
(* C39: under fairness (the consumer keeps running, the queue stays         *)
(* reachable, every scorer and store call returns or times out), every      *)
(* event successfully pushed by publish_eval_event is eventually popped and *)
(* handed to the scorer.                                                    *)
(***************************************************************************)
\* the k-th item pushed to the list is an event of publish_eval_event
PublishedAt(k) ==
    /\ Len(elog.pushed) >= k
    /\ elog.pushed[k] \notin ForeignItems

\* the k-th item popped is that item and was handed to the scorer
ScoredAt(k) ==
    /\ Len(elog.popped) >= k
    /\ elog.popped[k] = elog.pushed[k]
    /\ \E i \in 1..Len(elog.scored) : elog.scored[i] = k

\* the published events not yet handed to the scorer
Waiting == {k \in 1..Len(elog.pushed) : PublishedAt(k) /\ ~ScoredAt(k)}

C39_EventuallyScored == (Waiting # {}) ~> (Waiting = {})

\* an event pushed behind a text that is not JSON has been scored after the
\* consumer's error pause
C39_Witness ==
    /\ PublishedAt(2) /\ ScoredAt(2)
    /\ elog.pushed[1] = NotJson

====
